---- MODULE Spec2Model ----
(***************************************************************************)
(* Model of the Gen-Ed access / credential resolution engine               *)
(* (src/src/gened/openai.py, auth.py, admin.py; src/src/plum/admin.py) and *)
(* of the tutor chat built on it (src/src/codehelp/tutor.py).              *)
(*                                                                         *)
(* The database is the shared state.  Every inbound request is served by   *)
(* its own short-lived worker; a worker runs with_llm/_get_llm once.       *)
(* Each SQL statement is one atomic step of the database, so the metered   *)
(* path of _get_llm is two steps: the SELECT of users.query_tokens and,    *)
(* later, the UPDATE that decrements it.  The reads before that SELECT     *)
(* (get_auth, the class row) are taken in the same step as it.             *)
(*                                                                         *)
(* A tutor request goes through before_request and with_llm and then runs  *)
(* run_chat_round: get_chat, the save of the user turn, the provider call  *)
(* and the save of the assistant turn are steps of their own.              *)
(*                                                                         *)
(* _get_llm and tutor.py subscript the auth data (auth['class_id']); the   *)
(* model reads the field of that name of auth.py's AuthData.               *)
(***************************************************************************)
EXTENDS Integers, Sequences, FiniteSets, TLC

\* ---------------------------------------------------------------- bounds
MaxWorkers == 2      \* number of requests (one worker each)
MaxTokens == 2       \* largest initial users.query_tokens
MaxFragments == 2    \* longest exception message, in pieces

\* ------------------------------------------------------------- fixtures
NULL == "NULL"       \* SQL NULL / Python None for text values
NullId == 0          \* SQL NULL for integer ids (rowids start at 1)
NoRow == [openai_key |-> "NOROW", model_id |-> NullId]
Workers == 1..MaxWorkers
Users == {"u1", "u2"}
Admins == {"u3"}
NonTesters == {"u4"}
Classes == {"c1", "c2"}
ConsumerIds == {1}
SYSTEM_KEY == "SYS"  \* current_app.config["OPENAI_API_KEY"]

\* users table: auth provider and flags of each account
users == [u \in Users \cup Admins \cup NonTesters |->
            CASE u = "u1" -> [auth_provider |-> "google", is_admin |-> FALSE, is_tester |-> TRUE]
              [] u = "u2" -> [auth_provider |-> "local", is_admin |-> FALSE, is_tester |-> TRUE]
              [] u = "u3" -> [auth_provider |-> "local", is_admin |-> TRUE, is_tester |-> TRUE]
              [] u = "u4" -> [auth_provider |-> "local", is_admin |-> TRUE, is_tester |-> FALSE]]

\* roles table: id -> row
roles == [i \in 1..3 |->
            CASE i = 1 -> [user_id |-> "u1", class_id |-> "c1", role |-> "student", active |-> TRUE]
              [] i = 2 -> [user_id |-> "u1", class_id |-> "c2", role |-> "student", active |-> FALSE]
              [] i = 3 -> [user_id |-> "u2", class_id |-> "c1", role |-> "instructor", active |-> TRUE]]

\* models table: id -> model name; id 1 is the systemwide default
models == [i \in 1..2 |-> IF i = 1 THEN "M1" ELSE "M2"]

VARIABLES
    query_tokens,   \* users.query_tokens, per user
    enabled,        \* classes.enabled, per class
    consumers,      \* consumers table: id -> [openai_key, model_id] or NoRow
    classes_lti,    \* classes_lti table: class -> linked consumer id or NullId
    classes_user,   \* classes_user table: class -> [openai_key, model_id] or NoRow
    req,            \* per worker: position in with_llm/_get_llm and its outcome
    tutor_chats,    \* tutor_chats table: sequence of rows, the index is the rowid
    tut,            \* per worker: position in a tutor request and its locals
    id_store,       \* users and roles tables as get_auth finds them
    g_auth,         \* a request's session auth dict and the g.auth made from it
    completion,     \* a get_completion call: what the provider did, what it returned
    session,        \* the browser session's auth dict
    accounts,       \* users and auth_external rows of externally authenticated users
    consumers_lti,  \* consumers table, columns lti_consumer and lti_secret
    registry,       \* current_app.config['PYLTI_CONFIG']['consumers']
    admin           \* the consumer_delete just handled: its id and what it flashed

vars == <<query_tokens, enabled, consumers, classes_lti, classes_user, req,
          tutor_chats, tut, id_store, g_auth, completion,
          session, accounts, consumers_lti, registry, admin>>

\* ------------------------------------------------------------ auth.py
AnonAuth == [user_id |-> NULL, is_admin |-> FALSE, is_tester |-> FALSE,
             auth_provider |-> NULL, class_id |-> NULL, role_id |-> NullId,
             role |-> NULL]

\* session without an auth dict
NoSession == [user_id |-> NULL, class_id |-> NULL]
\* no externally authenticated user yet
NoLogin == [provider |-> NULL, ext_id |-> NULL, query_tokens |-> 0]
NoAccounts == [users |-> <<>>, external |-> {}, returned |-> NullId, login |-> NoLogin]

\* AuthData(): the defaults of the dataclass
AnonAuthData == [user_id |-> NULL, is_admin |-> FALSE, is_tester |-> FALSE,
                 auth_provider |-> NULL, class_id |-> NULL, class_name |-> NULL,
                 role_id |-> NullId, role |-> NULL, other_classes |-> <<>>]

\* classes.name
ClassName(class_id) == "name of " \o class_id

\* the elements of a set of ids as a list, largest first (ORDER BY id DESC)
RECURSIVE OrderDesc(_)
OrderDesc(S) ==
    IF S = {} THEN <<>>
    ELSE LET m == CHOOSE x \in S : \A y \in S : y <= x
         IN <<m>> \o OrderDesc(S \ {m})

\* active role rows of a user in a roles table
\* (WHERE roles.user_id=? AND roles.active=1)
ActiveRoleIdsIn(roles_tbl, user_id) ==
    {i \in DOMAIN roles_tbl : roles_tbl[i].user_id = user_id /\ roles_tbl[i].active}

ActiveRoleIds(user_id) == ActiveRoleIdsIn(roles, user_id)

\* variant: a user id without a row is taken for a plain local user
FetchUser_Ghost(users_tbl, user_id) ==
    IF user_id \in DOMAIN users_tbl THEN users_tbl[user_id]
    ELSE [is_admin |-> FALSE, is_tester |-> FALSE, auth_provider |-> "local"]

\* "SELECT ... FROM users ... WHERE users.id=?" and fetchone
FetchUser(users_tbl, user_id) ==
    IF user_id \in DOMAIN users_tbl THEN users_tbl[user_id] ELSE NoRow

\* the role row of the session's class: the loop keeps the last such row
MatchingRoleId(roles_tbl, role_rows, sess_class) ==
    LET matching == {k \in DOMAIN role_rows :
                       roles_tbl[role_rows[k]].class_id = sess_class}
    IN IF matching = {} THEN NullId
       ELSE role_rows[CHOOSE k \in matching : \A j \in matching : j <= k]

\* variant: every other class is listed, enabled or not
OtherClasses_Disabled(roles_tbl, classes_enabled, role_rows, sess_class) ==
    LET others == SelectSeq(role_rows, LAMBDA i : roles_tbl[i].class_id # sess_class)
    IN [k \in DOMAIN others |->
          [class_id |-> roles_tbl[others[k]].class_id,
           class_name |-> ClassName(roles_tbl[others[k]].class_id),
           role |-> roles_tbl[others[k]].role]]

\* the ClassData of the rows of other classes that are enabled, in row order
OtherClasses(roles_tbl, classes_enabled, role_rows, sess_class) ==
    LET others == SelectSeq(role_rows,
                            LAMBDA i : /\ roles_tbl[i].class_id # sess_class
                                       /\ classes_enabled[roles_tbl[i].class_id])
    IN [k \in DOMAIN others |->
          [class_id |-> roles_tbl[others[k]].class_id,
           class_name |-> ClassName(roles_tbl[others[k]].class_id),
           role |-> roles_tbl[others[k]].role]]

\* variant: the session's class is kept whether or not a role matches
ActiveClassId_Keep(is_admin, role_id, sess_class) == sess_class

\* variant: an admin's class is dropped like anyone's
ActiveClassId_AdminToo(is_admin, role_id, sess_class) ==
    IF role_id = NullId THEN NULL ELSE sess_class

\* "if not role_id and not is_admin: class_id = None"
ActiveClassId(is_admin, role_id, sess_class) ==
    IF role_id = NullId /\ ~is_admin THEN NULL ELSE sess_class

\* variant: an admin has the role of the matching row, if any
ActiveRole_AsMember(roles_tbl, is_admin, role_id, class_id) ==
    IF role_id # NullId THEN roles_tbl[role_id].role ELSE NULL

\* the matching row's role, overridden for an admin in a class
ActiveRole(roles_tbl, is_admin, role_id, class_id) ==
    IF class_id # NULL /\ is_admin THEN "instructor"
    ELSE IF role_id # NullId THEN roles_tbl[role_id].role ELSE NULL

\* _get_auth_from_session on given users, roles and classes.enabled tables
\* (display_name and class_experiments are left out)
AuthDataFrom(users_tbl, roles_tbl, classes_enabled, sess_user, sess_class) ==
    IF sess_user = NULL \/ FetchUser(users_tbl, sess_user) = NoRow
    THEN AnonAuthData
    ELSE LET user_row == FetchUser(users_tbl, sess_user)
             role_rows == OrderDesc(ActiveRoleIdsIn(roles_tbl, sess_user))
             role_id == MatchingRoleId(roles_tbl, role_rows, sess_class)
             class_id == ActiveClassId(user_row.is_admin, role_id, sess_class)
         IN [user_id |-> sess_user, is_admin |-> user_row.is_admin,
             is_tester |-> user_row.is_tester,
             auth_provider |-> user_row.auth_provider,
             class_id |-> class_id,
             class_name |-> IF class_id # NULL THEN ClassName(class_id) ELSE NULL,
             role_id |-> role_id,
             role |-> ActiveRole(roles_tbl, user_row.is_admin, role_id, class_id),
             other_classes |-> OtherClasses(roles_tbl, classes_enabled, role_rows,
                                            sess_class)]

\* the auth data _get_llm and the tutor read, on the users and roles above
GetAuthFromSession(sess_user, sess_class) ==
    LET a == AuthDataFrom(users, roles, [c \in Classes |-> TRUE], sess_user, sess_class)
    IN [user_id |-> a.user_id, is_admin |-> a.is_admin, is_tester |-> a.is_tester,
        auth_provider |-> a.auth_provider, class_id |-> a.class_id,
        role_id |-> a.role_id, role |-> a.role]

\* the session's auth dict (its class_id may be absent) and g.auth
IdleG == [pc |-> "idle", user_id |-> NULL, class_id |-> NULL, auth |-> AnonAuthData]

\* get_auth: g.auth is made from the session on first use in a request
GetAuth(sess_user, sess_class) ==
    /\ g_auth.pc = "idle"
    /\ g_auth' = [pc |-> "set", user_id |-> sess_user, class_id |-> sess_class,
                  auth |-> AuthDataFrom(id_store.users, id_store.roles, enabled,
                                        sess_user, sess_class)]
    /\ UNCHANGED <<query_tokens, enabled, consumers, classes_lti, classes_user, req,
                   tutor_chats, tut, id_store, completion, session, accounts,
                   consumers_lti, registry, admin>>

\* variant: the session's class is left as the previous user had it
SetSessionAuthUser_KeepClass(user_id) ==
    /\ session' = [session EXCEPT !.user_id = user_id]
    /\ g_auth' = IdleG
    /\ UNCHANGED <<query_tokens, enabled, consumers, classes_lti, classes_user, req,
                   tutor_chats, tut, id_store, completion, accounts,
                   consumers_lti, registry, admin>>

\* set_session_auth_user: a new auth dict with the user id alone, and
\* _invalidate_g_auth
SetSessionAuthUser(user_id) ==
    /\ session' = [user_id |-> user_id, class_id |-> NULL]
    /\ g_auth' = IdleG
    /\ UNCHANGED <<query_tokens, enabled, consumers, classes_lti, classes_user, req,
                   tutor_chats, tut, id_store, completion, accounts,
                   consumers_lti, registry, admin>>

\* variant: g.auth is kept
SetSessionAuthClass_NoInvalidate(class_id) ==
    /\ g_auth.pc # "raised"
    /\ IF session.user_id = NULL
       THEN g_auth' = [IdleG EXCEPT !.pc = "raised"] /\ UNCHANGED session
       ELSE session' = [session EXCEPT !.class_id = class_id] /\ UNCHANGED g_auth
    /\ UNCHANGED <<query_tokens, enabled, consumers, classes_lti, classes_user, req,
                   tutor_chats, tut, id_store, completion, accounts,
                   consumers_lti, registry, admin>>

\* set_session_auth_class: the asserts fail without a user in the session
\* (the request ends in an AssertionError); else the class id is put into
\* the auth dict, and _invalidate_g_auth
SetSessionAuthClass(class_id) ==
    /\ g_auth.pc # "raised"
    /\ IF session.user_id = NULL
       THEN g_auth' = [IdleG EXCEPT !.pc = "raised"] /\ UNCHANGED session
       ELSE session' = [session EXCEPT !.class_id = class_id] /\ g_auth' = IdleG
    /\ UNCHANGED <<query_tokens, enabled, consumers, classes_lti, classes_user, req,
                   tutor_chats, tut, id_store, completion, accounts,
                   consumers_lti, registry, admin>>

\* get_auth in a request of the session: g.auth if there is one, else made
\* from the session (a step only in the second case)
SessionGetAuth ==
    GetAuth(session.user_id, session.class_id)

\* logout: session.clear(), and the request ends with the redirect
Logout ==
    /\ session # NoSession
    /\ session' = NoSession
    /\ g_auth' = IdleG
    /\ UNCHANGED <<query_tokens, enabled, consumers, classes_lti, classes_user, req,
                   tutor_chats, tut, id_store, completion, accounts,
                   consumers_lti, registry, admin>>

\* the request ends and g goes with it
EndRequest ==
    /\ g_auth.pc # "idle"
    /\ g_auth' = IdleG
    /\ UNCHANGED <<query_tokens, enabled, consumers, classes_lti, classes_user, req,
                   tutor_chats, tut, id_store, completion, session, accounts,
                   consumers_lti, registry, admin>>

\* ---------------------------------------------------------- openai.py
Coalesce(a, b) == IF a # NULL THEN a ELSE b
CoalesceId(a, b) == IF a # NullId THEN a ELSE b
NullRow == [openai_key |-> NULL, model_id |-> NullId]
ModelName(model_id) == IF model_id \in DOMAIN models THEN models[model_id] ELSE NULL

\* LEFT JOIN classes_lti / consumers for a class
ConsumerOf(c) ==
    IF classes_lti[c] # NullId /\ consumers[classes_lti[c]] # NoRow
    THEN consumers[classes_lti[c]] ELSE NullRow

\* LEFT JOIN classes_user for a class
UserRowOf(c) == IF classes_user[c] # NoRow THEN classes_user[c] ELSE NullRow

ClassRow(c) ==
    LET openai_key == Coalesce(ConsumerOf(c).openai_key, UserRowOf(c).openai_key)
        model_id == CoalesceId(ConsumerOf(c).model_id, UserRowOf(c).model_id)
    IN [enabled |-> enabled[c], openai_key |-> openai_key,
        model_id |-> model_id, model |-> ModelName(model_id)]

\* variant: only a NULL key counts as missing
Falsy_NullOnly(s) == s = NULL

\* Python truth value of a key: None and '' are false
Falsy(s) == s = NULL \/ s = ""

NoResult == [kind |-> "none", key |-> NULL, model |-> NULL]
Ok(key, model) == [kind |-> "Ok", key |-> key, model |-> model]
Raise(e) == [kind |-> e, key |-> NULL, model |-> NULL]

make_system_client == Ok(SYSTEM_KEY, ModelName(1))

\* variant: the key is looked at before classes.enabled
ClassBranch_KeyFirst(c) ==
    IF ~Falsy(ClassRow(c).openai_key) THEN Ok(ClassRow(c).openai_key, ClassRow(c).model)
    ELSE IF ~ClassRow(c).enabled THEN Raise("ClassDisabledError")
    ELSE Raise("NoKeyFoundError")

\* lines 98-108: the checks on the class row, in order
ClassBranch(c) ==
    IF ~ClassRow(c).enabled THEN Raise("ClassDisabledError")
    ELSE IF Falsy(ClassRow(c).openai_key) THEN Raise("NoKeyFoundError")
    ELSE Ok(ClassRow(c).openai_key, ClassRow(c).model)

\* variant: the user's tokens are consulted before the active class
GetLLMFirst_TokensBeforeClass(auth, use_system_key) ==
    IF use_system_key THEN make_system_client
    ELSE IF auth.user_id # NULL /\ auth.auth_provider # "local" /\ query_tokens[auth.user_id] = 0
         THEN Raise("NoTokensError")
    ELSE IF auth.user_id # NULL /\ auth.auth_provider # "local" THEN Raise("metered")
    ELSE IF auth.class_id # NULL THEN ClassBranch(auth.class_id)
    ELSE IF auth.user_id = NULL THEN Raise("TypeError")
    ELSE make_system_client

\* variant: use_system_key is honoured only when there is no active class
GetLLMFirst_ClassBeforeSystem(auth, use_system_key) ==
    IF auth.class_id # NULL THEN ClassBranch(auth.class_id)
    ELSE IF use_system_key THEN make_system_client
    ELSE IF auth.user_id = NULL THEN Raise("TypeError")
    ELSE IF auth.auth_provider = "local" THEN make_system_client
    ELSE IF query_tokens[auth.user_id] = 0 THEN Raise("NoTokensError")
    ELSE Raise("metered")

\* variant: local-auth users are metered like everybody else
GetLLMFirst_NoLocalExemption(auth, use_system_key) ==
    IF use_system_key THEN make_system_client
    ELSE IF auth.class_id # NULL THEN ClassBranch(auth.class_id)
    ELSE IF auth.user_id = NULL THEN Raise("TypeError")
    ELSE IF query_tokens[auth.user_id] = 0 THEN Raise("NoTokensError")
    ELSE Raise("metered")

\* the part of _get_llm before the UPDATE: its result, or "metered" when the
\* function goes on to decrement the caller's tokens
GetLLMFirst(auth, use_system_key) ==
    IF use_system_key THEN make_system_client
    ELSE IF auth.class_id # NULL THEN ClassBranch(auth.class_id)
    ELSE IF auth.user_id = NULL THEN Raise("TypeError")
    ELSE IF auth.auth_provider = "local" THEN make_system_client
    ELSE IF query_tokens[auth.user_id] = 0 THEN Raise("NoTokensError")
    ELSE Raise("metered")

\* variant: the UPDATE takes two tokens
DecrementTokens_ByTwo(user_id) ==
    [query_tokens EXCEPT ![user_id] = @ - 2]

\* variant: the UPDATE has no WHERE clause
DecrementTokens_AllUsers(user_id) ==
    [u \in Users |-> query_tokens[u] - 1]

\* UPDATE users SET query_tokens=query_tokens-1 WHERE id=?
DecrementTokens(user_id) ==
    [query_tokens EXCEPT ![user_id] = @ - 1]

\* variant: one message for every denial
WithLLMFlash_Generic(kind) ==
    IF kind \in {"ClassDisabledError", "NoKeyFoundError", "NoTokensError"}
    THEN "Error: Request cannot be submitted."
    ELSE NULL

\* with_llm: the message flashed for what _get_llm raised (NULL: none)
WithLLMFlash(kind) ==
    CASE kind = "ClassDisabledError" ->
            "Error: The current class is archived or disabled.  Request cannot be submitted."
      [] kind = "NoKeyFoundError" ->
            "Error: No API key set.  Request cannot be submitted."
      [] kind = "NoTokensError" ->
            "You have used all of your free tokens."
      [] OTHER -> NULL

\* flashed: the message with_llm flashed before it rendered error.html
IdleReq == [pc |-> "idle", auth |-> AnonAuth, use_system_key |-> FALSE,
            result |-> NoResult, flashed |-> NULL]

\* with_llm -> _get_llm, up to and including the SELECT of the user's tokens
GetLLM(w, sess_user, sess_class, use_system_key) ==
    /\ req[w].pc = "idle"
    /\ LET auth == GetAuthFromSession(sess_user, sess_class)
           r == GetLLMFirst(auth, use_system_key)
       IN req' = [req EXCEPT ![w] =
                    [pc |-> IF r.kind = "metered" THEN "decrement" ELSE "done",
                     auth |-> auth, use_system_key |-> use_system_key,
                     result |-> IF r.kind = "metered" THEN NoResult ELSE r,
                     flashed |-> WithLLMFlash(r.kind)]]
    /\ UNCHANGED <<query_tokens, enabled, consumers, classes_lti, classes_user>>

\* _get_llm: UPDATE users SET query_tokens=query_tokens-1; commit; return
Decrement(w) ==
    /\ req[w].pc = "decrement"
    /\ query_tokens' = DecrementTokens(req[w].auth.user_id)
    /\ req' = [req EXCEPT ![w].pc = "done", ![w].result = make_system_client]
    /\ UNCHANGED <<enabled, consumers, classes_lti, classes_user>>

\* with_llm in a request of the session: _get_llm reads get_auth()
SessionGetLLM(w, use_system_key) ==
    /\ g_auth.pc # "raised"
    /\ LET memo == g_auth.pc = "set"
           su == IF memo THEN g_auth.user_id ELSE session.user_id
           sc == IF memo THEN g_auth.class_id ELSE session.class_id
       IN /\ GetLLM(w, su, sc, use_system_key)
          /\ g_auth' = [pc |-> "set", user_id |-> su, class_id |-> sc,
                        auth |-> AuthDataFrom(id_store.users, id_store.roles, enabled,
                                              su, sc)]
    /\ UNCHANGED <<tutor_chats, tut, id_store, completion, session, accounts,
                   consumers_lti, registry, admin>>

\* ------------------------------------------------------------ admin.py
\* no row / the lti columns of a consumers row
NoLti == [lti_consumer |-> "NOROW", lti_secret |-> NULL]
\* the lti columns of the rows of a consumers table whose forms gave no more
\* than a name
LtiColumnsOf(cons) ==
    [i \in DOMAIN cons |->
        IF cons[i] = NoRow THEN NoLti
        ELSE [lti_consumer |-> "lms", lti_secret |-> ""]]

\* reload_consumers: the dict built from SELECT * FROM consumers; a later
\* row of the same name would replace an earlier one
ReloadConsumers(lti_rows) ==
    LET stored == {i \in DOMAIN lti_rows : lti_rows[i] # NoLti}
    IN [name \in {lti_rows[i].lti_consumer : i \in stored} |->
          LET named == {i \in stored : lti_rows[i].lti_consumer = name}
          IN lti_rows[CHOOSE i \in named : \A j \in named : j <= i].lti_secret]

\* variant: the dict is left as it was
ReloadAfter_Never(lti_rows) == registry

\* the registry after a handler's commit and its call of reload_consumers
ReloadAfter(lti_rows) == ReloadConsumers(lti_rows)

FormKeys == {"", "KL"}
FormModels == {NullId, 2}   \* NullId: the form field is empty
\* no consumer_delete was the last form handled
NoAdmin == [op |-> NULL, consumer_id |-> NullId, flash |-> NULL]

\* lastrowid of an INSERT INTO consumers
NextConsumerId ==
    IF \E i \in DOMAIN consumers : consumers[i] = NoRow
    THEN CHOOSE i \in DOMAIN consumers :
            consumers[i] = NoRow /\ \A j \in DOMAIN consumers : consumers[j] = NoRow => i <= j
    ELSE NullId

\* lti_consumer is UNIQUE: an INSERT of a stored name fails
NameStored(name) ==
    \E i \in DOMAIN consumers_lti :
        consumers_lti[i] # NoLti /\ consumers_lti[i].lti_consumer = name

UpdateConsumerRow(row, key, model_id) ==
    [openai_key |-> IF key # "" THEN key ELSE row.openai_key,
     model_id |-> IF model_id # NullId THEN model_id ELSE row.model_id]

\* gened.admin.consumer_update, its reload_consumers included
ConsumerUpdate(consumer_id, op, name, secret, key, model_id) ==
    /\ \/ /\ op = "insert"
          /\ consumer_id = NullId
          /\ NextConsumerId # NullId
          /\ ~NameStored(name)
          /\ model_id # NullId
          /\ consumers' = [consumers EXCEPT ![NextConsumerId] =
                              [openai_key |-> key, model_id |-> model_id]]
          /\ consumers_lti' = [consumers_lti EXCEPT ![NextConsumerId] =
                                  [lti_consumer |-> name, lti_secret |-> secret]]
       \/ /\ op = "clear_lti_secret"
          /\ consumer_id # NullId
          /\ consumers[consumer_id] # NoRow
          /\ consumers_lti' = [consumers_lti EXCEPT ![consumer_id].lti_secret = ""]
          /\ UNCHANGED consumers
       \/ /\ op = "clear_openai_key"
          /\ consumer_id # NullId
          /\ consumers[consumer_id] # NoRow
          /\ consumers' = [consumers EXCEPT ![consumer_id].openai_key = ""]
          /\ UNCHANGED consumers_lti
       \/ /\ op = "update"
          /\ consumer_id # NullId
          /\ consumers[consumer_id] # NoRow
          /\ consumers' = [consumers EXCEPT ![consumer_id] =
                              UpdateConsumerRow(@, key, model_id)]
          /\ consumers_lti' = IF secret # ""
                              THEN [consumers_lti EXCEPT ![consumer_id].lti_secret = secret]
                              ELSE consumers_lti
    /\ registry' = ReloadAfter(consumers_lti')
    /\ admin' = NoAdmin
    /\ UNCHANGED <<query_tokens, enabled, classes_lti, classes_user, req>>

\* "SELECT COUNT(*) FROM classes_lti WHERE lti_consumer_id=?"
LinkedClasses(consumer_id) == {c \in DOMAIN classes_lti : classes_lti[c] = consumer_id}

\* gened.admin.consumer_delete
ConsumerDelete(consumer_id) ==
    /\ IF LinkedClasses(consumer_id) # {}
       THEN /\ admin' = [op |-> "delete", consumer_id |-> consumer_id,
                         flash |-> "Cannot delete consumer: there are related classes."]
            /\ UNCHANGED <<consumers, consumers_lti, registry>>
       ELSE IF consumer_id \notin DOMAIN consumers \/ consumers[consumer_id] = NoRow
       THEN /\ admin' = [op |-> "delete", consumer_id |-> consumer_id,
                         flash |-> "Invalid id."]
            /\ UNCHANGED <<consumers, consumers_lti, registry>>
       ELSE /\ consumers' = [consumers EXCEPT ![consumer_id] = NoRow]
            /\ consumers_lti' = [consumers_lti EXCEPT ![consumer_id] = NoLti]
            /\ registry' = ReloadAfter(consumers_lti')
            /\ admin' = [op |-> "delete", consumer_id |-> consumer_id,
                         flash |-> "Consumer deleted."]
    /\ UNCHANGED <<query_tokens, enabled, classes_lti, classes_user, req>>

\* plum.admin.consumer_update: the INSERT leaves consumers.model_id unset
PlumConsumerInsert(name, secret, key) ==
    /\ NextConsumerId # NullId
    /\ ~NameStored(name)
    /\ consumers' = [consumers EXCEPT ![NextConsumerId] =
                        [openai_key |-> key, model_id |-> NullId]]
    /\ consumers_lti' = [consumers_lti EXCEPT ![NextConsumerId] =
                            [lti_consumer |-> name, lti_secret |-> secret]]
    /\ registry' = ReloadAfter(consumers_lti')
    /\ admin' = NoAdmin
    /\ UNCHANGED <<query_tokens, enabled, classes_lti, classes_user, req>>

\* ------------------------------------------- openai.py: get_completion
QuotaPhrase == "exceeded your current quota"
ContextPhrase == "maximum context length"
LengthError == "[error: maximum length exceeded]"
CommonErrorText(error_type) == "Error (" \o error_type \o "). Something went wrong."

\* the exception classes the client raises, and each one's base class
ErrorClasses == {"APITimeoutError", "APIConnectionError", "RateLimitError",
                 "AuthenticationError", "BadRequestError", "InternalServerError",
                 "APIError"}
BaseClass(cls) ==
    CASE cls = "APITimeoutError" -> "APIConnectionError"
      [] cls = "APIConnectionError" -> "APIError"
      [] cls \in {"RateLimitError", "AuthenticationError", "BadRequestError",
                  "InternalServerError"} -> "APIStatusError"
      [] cls = "APIStatusError" -> "APIError"
      [] OTHER -> "Exception"

\* does "except target" catch an exception of class cls
RECURSIVE IsInstance(_, _)
IsInstance(cls, target) ==
    \/ cls = target
    \/ cls # "Exception" /\ IsInstance(BaseClass(cls), target)

\* str(e) is a list of fragments; "phrase in err_str" looks for one of them
Contains(err_str, phrase) == \E i \in DOMAIN err_str : err_str[i] = phrase

\* what client.chat.completions.create does: it returns a choice (its text
\* in content) or raises an exception (its class in error, str(e) in err_str)
Completion(content, finish_reason) ==
    [error |-> NULL, err_str |-> <<>>, content |-> content,
     finish_reason |-> finish_reason]
ApiError(type, str) ==
    [error |-> type, err_str |-> str, content |-> NULL, finish_reason |-> NULL]

\* variant: the except openai.APIError clause comes first
GetCompletion_APIErrorFirst(outcome) ==
    IF outcome.error = NULL
    THEN IF outcome.finish_reason = "length"
         THEN outcome.content \o LengthError
         ELSE outcome.content
    ELSE CommonErrorText("APIError")

\* variant: the text for an unrecognised error ends with str(e)
GetCompletion_EchoError(outcome) ==
    IF outcome.error = NULL
    THEN IF outcome.finish_reason = "length"
         THEN outcome.content \o LengthError
         ELSE outcome.content
    ELSE IF IsInstance(outcome.error, "APITimeoutError")
    THEN "Error (APITimeoutError). The system timed out."
    ELSE IF IsInstance(outcome.error, "RateLimitError")
    THEN IF Contains(outcome.err_str, QuotaPhrase)
         THEN "Error (RateLimitError). The API key has exceeded its quota."
         ELSE "Error (RateLimitError). Too many requests."
    ELSE IF IsInstance(outcome.error, "AuthenticationError")
    THEN "Error (AuthenticationError). The API key is invalid."
    ELSE IF IsInstance(outcome.error, "BadRequestError")
    THEN IF Contains(outcome.err_str, ContextPhrase)
         THEN "Error (BadRequestError). Your query is too long."
         ELSE CommonErrorText("BadRequestError")
    ELSE IF outcome.err_str = <<>> THEN CommonErrorText("APIError")
    ELSE CommonErrorText("APIError") \o " " \o outcome.err_str[1]

\* the response text get_completion returns: the except clauses are tried
\* in the order written, and every class the client raises is an APIError,
\* so no exception leaves it
GetCompletion(outcome) ==
    IF outcome.error = NULL
    THEN IF outcome.finish_reason = "length"
         THEN outcome.content \o LengthError
         ELSE outcome.content
    ELSE IF IsInstance(outcome.error, "APITimeoutError")
    THEN "Error (APITimeoutError). The system timed out."
    ELSE IF IsInstance(outcome.error, "RateLimitError")
    THEN IF Contains(outcome.err_str, QuotaPhrase)
         THEN "Error (RateLimitError). The API key has exceeded its quota."
         ELSE "Error (RateLimitError). Too many requests."
    ELSE IF IsInstance(outcome.error, "AuthenticationError")
    THEN "Error (AuthenticationError). The API key is invalid."
    ELSE IF IsInstance(outcome.error, "BadRequestError")
    THEN IF Contains(outcome.err_str, ContextPhrase)
         THEN "Error (BadRequestError). Your query is too long."
         ELSE CommonErrorText("BadRequestError")
    ELSE CommonErrorText("APIError")

\* the response object get_completion returns beside the text
ResponseObj(outcome) ==
    IF outcome.error = NULL
    THEN [error |-> <<>>, choice |-> outcome.content]
    ELSE [error |-> outcome.err_str, choice |-> NULL]

\* one call of get_completion: nothing called yet, and what it returned
IdleCompletion ==
    [pc |-> "idle", outcome |-> Completion(NULL, NULL),
     response |-> ResponseObj(Completion(NULL, NULL)), response_txt |-> NULL]

\* a call: it awaits create once and returns the pair; calls share nothing,
\* completion holds the latest one
CallGetCompletion(outcome) ==
    /\ completion' = [pc |-> "returned", outcome |-> outcome,
                      response |-> ResponseObj(outcome),
                      response_txt |-> GetCompletion(outcome)]
    /\ UNCHANGED <<query_tokens, enabled, consumers, classes_lti, classes_user, req,
                   tutor_chats, tut, id_store, g_auth, session, accounts,
                   consumers_lti, registry, admin>>

\* ------------------------------------------------------------ tutor.py
ChatIds == {1}           \* rowids the tutor_chats table can hold
FormIds == {1, 2}        \* chat ids a request can name
Topics == {"topic"}
Contexts == {NULL, "", "ctx"}
Messages == {"m1", "m2"}
Replies == {"r1", "r2"}  \* texts the model answers with

Turn(role, content) == [role |-> role, content |-> content]
OpeningMsg == "opening_msg"
ContextMsg(context) == "context_msg: " \o context
MonologueMsg == "monologue"

NoForm == [op |-> NULL, chat_id |-> NullId, message |-> NULL,
           topic |-> NULL, context |-> NULL]
\* chat: the local list of run_chat_round; sent: the messages passed to
\* get_response; response_obj, response_txt: what it returned (NULL before
\* it returns; the object is "completion", or "error" when it has that key);
\* calls: the awaits of client.chat.completions.create made for the request
IdleTut == [pc |-> "idle", form |-> NoForm, chat_id |-> NullId, chat |-> <<>>,
            sent |-> <<>>, calls |-> 0, response_obj |-> NULL, response_txt |-> NULL,
            response |-> NULL]
ClosedTut == [IdleTut EXCEPT !.pc = "closed"]
ClosedReq == [IdleReq EXCEPT !.pc = "closed"]

\* variant: login_required is applied before tester_required
before_request_LoginFirst(auth) ==
    IF auth.user_id = NULL THEN "redirect: login"
    ELSE IF ~auth.is_tester THEN "404"
    ELSE "ok"

\* @tester_required @login_required before_request
before_request(auth) ==
    IF ~auth.is_tester THEN "404"
    ELSE IF auth.user_id = NULL THEN "redirect: login"
    ELSE "ok"

\* roles.class_id of the chat row (LEFT JOIN roles ON tutor_chats.role_id=roles.id)
ChatClassId(chat_row) ==
    IF chat_row.role_id \in DOMAIN roles THEN roles[chat_row.role_id].class_id ELSE NULL

\* variant: every instructor is let in
AccessAllowed_AnyInstructor(auth, chat_row) ==
    \/ auth.user_id = chat_row.user_id
    \/ auth.is_admin
    \/ auth.role = "instructor"

AccessAllowed(auth, chat_row) ==
    \/ auth.user_id = chat_row.user_id
    \/ auth.is_admin
    \/ (auth.role = "instructor" /\ auth.class_id = ChatClassId(chat_row))

\* get_chat: the chat, or the exception it raises (chat_json is the JSON
\* text of a list of role/content objects; json.loads gives that list back)
GetChat(auth, chat_id) ==
    IF chat_id \notin DOMAIN tutor_chats
    THEN [kind |-> "ChatNotFoundError", chat |-> <<>>, topic |-> NULL, context |-> NULL]
    ELSE LET chat_row == tutor_chats[chat_id] IN
         IF ~AccessAllowed(auth, chat_row)
         THEN [kind |-> "AccessDeniedError", chat |-> <<>>, topic |-> NULL, context |-> NULL]
         ELSE [kind |-> "Ok", chat |-> chat_row.chat_json,
               topic |-> chat_row.topic, context |-> chat_row.context]

\* variant: the list is added to what is stored
SaveChat_Extend(chat_id, chat) ==
    [tutor_chats EXCEPT ![chat_id].chat_json = @ \o chat]

\* UPDATE tutor_chats SET chat_json=? WHERE id=?
SaveChat(chat_id, chat) ==
    [tutor_chats EXCEPT ![chat_id].chat_json = chat]

\* create_chat: the row it INSERTs
NewChatRow(auth, topic, context) ==
    [user_id |-> auth.user_id, role_id |-> auth.role_id, topic |-> topic,
     context |-> context, chat_json |-> <<>>]

\* variant: the context note is sent whenever a context was submitted
ExpandedChat_ContextAlways(topic, context, chat) ==
    <<Turn("user", topic), Turn("user", OpeningMsg)>>
    \o (IF context # NULL THEN <<Turn("assistant", ContextMsg(context))>> ELSE <<>>)
    \o chat
    \o <<Turn("assistant", MonologueMsg)>>

\* run_chat_round: expanded_chat
ExpandedChat(topic, context, chat) ==
    <<Turn("user", topic), Turn("user", OpeningMsg)>>
    \o (IF ~Falsy(context) THEN <<Turn("assistant", ContextMsg(context))>> ELSE <<>>)
    \o chat
    \o <<Turn("assistant", MonologueMsg)>>

\* variant: list.insert(0, turn)
AppendTurn_AtFront(chat, turn) == <<turn>> \o chat

\* chat.append(turn)
AppendTurn(chat, turn) == Append(chat, turn)

Responded(t, response) == [t EXCEPT !.pc = "responded", !.response = response]

\* POST /chat/create up to the return of with_llm's _get_llm
StartChat(w, sess_user, sess_class, topic, context) ==
    /\ tut[w].pc = "idle"
    /\ LET auth == GetAuthFromSession(sess_user, sess_class)
           form == [NoForm EXCEPT !.op = "start_chat", !.topic = topic, !.context = context]
       IN IF before_request(auth) # "ok"
          THEN /\ req[w].pc = "idle"
               /\ tut' = [tut EXCEPT ![w] = Responded([IdleTut EXCEPT !.form = form],
                                                      before_request(auth))]
               /\ req' = [req EXCEPT ![w].auth = auth]
               /\ UNCHANGED <<query_tokens, enabled, consumers, classes_lti,
                              classes_user>>
          ELSE /\ GetLLM(w, sess_user, sess_class, FALSE)
               /\ tut' = [tut EXCEPT ![w] = [IdleTut EXCEPT !.pc = "create", !.form = form]]
    /\ UNCHANGED tutor_chats

\* POST /message up to the return of with_llm's _get_llm
NewMessage(w, sess_user, sess_class, chat_id, message) ==
    /\ tut[w].pc = "idle"
    /\ LET auth == GetAuthFromSession(sess_user, sess_class)
           form == [NoForm EXCEPT !.op = "new_message", !.chat_id = chat_id,
                                  !.message = message]
       IN IF before_request(auth) # "ok"
          THEN /\ req[w].pc = "idle"
               /\ tut' = [tut EXCEPT ![w] = Responded([IdleTut EXCEPT !.form = form],
                                                      before_request(auth))]
               /\ req' = [req EXCEPT ![w].auth = auth]
               /\ UNCHANGED <<query_tokens, enabled, consumers, classes_lti,
                              classes_user>>
          ELSE /\ GetLLM(w, sess_user, sess_class, FALSE)
               /\ tut' = [tut EXCEPT ![w] = [IdleTut EXCEPT !.pc = "load", !.form = form,
                                                            !.chat_id = chat_id]]
    /\ UNCHANGED tutor_chats

\* the page chat_interface renders for this caller
ChatInterfacePage(auth, chat_id) ==
    IF GetChat(auth, chat_id).kind # "Ok" THEN "Invalid id." ELSE "tutor_view.html"

\* GET /chat/<chat_id> (req[w].auth is g.auth, set by get_auth)
ChatInterface(w, sess_user, sess_class, chat_id) ==
    /\ tut[w].pc = "idle"
    /\ req[w].pc = "idle"
    /\ LET auth == GetAuthFromSession(sess_user, sess_class)
           form == [NoForm EXCEPT !.op = "chat_interface", !.chat_id = chat_id]
           got == GetChat(auth, chat_id)
       IN /\ tut' = [tut EXCEPT ![w] =
                       IF before_request(auth) # "ok"
                       THEN Responded([IdleTut EXCEPT !.form = form], before_request(auth))
                       ELSE Responded([IdleTut EXCEPT !.form = form, !.chat_id = chat_id,
                                                      !.chat = got.chat],
                                      ChatInterfacePage(auth, chat_id))]
          /\ req' = [req EXCEPT ![w].auth = auth]
    /\ UNCHANGED <<query_tokens, enabled, consumers, classes_lti, classes_user,
                   tutor_chats>>

\* with_llm: _get_llm raised; the handler is not called
WithLLMDenied(w) ==
    /\ tut[w].pc \in {"create", "load"}
    /\ req[w].pc = "done"
    /\ req[w].result.kind # "Ok"
    /\ tut' = [tut EXCEPT ![w] = Responded(@, "error.html: " \o req[w].flashed)]
    /\ UNCHANGED <<query_tokens, enabled, consumers, classes_lti, classes_user, req,
                   tutor_chats>>

\* variant: the handler is called whatever _get_llm did
CreateChat_Ungated(w) ==
    /\ tut[w].pc = "create"
    /\ req[w].pc = "done"
    /\ Len(tutor_chats) + 1 \in ChatIds
    /\ tutor_chats' = Append(tutor_chats,
                             NewChatRow(req[w].auth, tut[w].form.topic, tut[w].form.context))
    /\ tut' = [tut EXCEPT ![w].pc = "load", ![w].chat_id = Len(tutor_chats) + 1]
    /\ UNCHANGED <<query_tokens, enabled, consumers, classes_lti, classes_user, req>>

\* start_chat: create_chat (INSERT, commit)
CreateChat(w) ==
    /\ tut[w].pc = "create"
    /\ req[w].pc = "done"
    /\ req[w].result.kind = "Ok"
    /\ Len(tutor_chats) + 1 \in ChatIds
    /\ tutor_chats' = Append(tutor_chats,
                             NewChatRow(req[w].auth, tut[w].form.topic, tut[w].form.context))
    /\ tut' = [tut EXCEPT ![w].pc = "load", ![w].chat_id = Len(tutor_chats) + 1]
    /\ UNCHANGED <<query_tokens, enabled, consumers, classes_lti, classes_user, req>>

\* variant: AccessDeniedError is not raised
RoundLoad_IgnoreDenied(w) ==
    /\ tut[w].pc = "load"
    /\ req[w].pc = "done"
    /\ req[w].result.kind = "Ok"
    /\ LET message == tut[w].form.message
       IN tut' = [tut EXCEPT ![w] =
                    IF tut[w].chat_id \notin DOMAIN tutor_chats
                    THEN Responded(@, "redirect: chat_interface")
                    ELSE [@ EXCEPT !.pc = "save_user",
                                   !.chat = IF message # NULL
                                            THEN Append(tutor_chats[tut[w].chat_id].chat_json,
                                                        Turn("user", message))
                                            ELSE tutor_chats[tut[w].chat_id].chat_json]]
    /\ UNCHANGED <<query_tokens, enabled, consumers, classes_lti, classes_user, req,
                   tutor_chats>>

\* run_chat_round: get_chat, and the append of the user's message
RoundLoad(w) ==
    /\ tut[w].pc = "load"
    /\ req[w].pc = "done"
    /\ req[w].result.kind = "Ok"
    /\ LET got == GetChat(req[w].auth, tut[w].chat_id)
           message == tut[w].form.message
       IN tut' = [tut EXCEPT ![w] =
                    IF got.kind # "Ok"
                    THEN Responded(@, "redirect: chat_interface")
                    ELSE [@ EXCEPT !.pc = "save_user",
                                   !.chat = IF message # NULL
                                            THEN AppendTurn(got.chat, Turn("user", message))
                                            ELSE got.chat]]
    /\ UNCHANGED <<query_tokens, enabled, consumers, classes_lti, classes_user, req,
                   tutor_chats>>

\* variant: the first save_chat is left out
RoundSaveUser_Skip(w) ==
    /\ tut[w].pc = "save_user"
    /\ tut' = [tut EXCEPT ![w].pc = "get_response"]
    /\ UNCHANGED <<query_tokens, enabled, consumers, classes_lti, classes_user, req,
                   tutor_chats>>

\* run_chat_round: the first save_chat
RoundSaveUser(w) ==
    /\ tut[w].pc = "save_user"
    /\ tutor_chats' = SaveChat(tut[w].chat_id, tut[w].chat)
    /\ tut' = [tut EXCEPT ![w].pc = "get_response"]
    /\ UNCHANGED <<query_tokens, enabled, consumers, classes_lti, classes_user, req>>

\* variant: the token of a metered request is given back when the call fails
RoundGetResponse_RefundOnError(w, outcome) ==
    /\ tut[w].pc = "get_response"
    /\ LET chat_row == tutor_chats[tut[w].chat_id]
       IN tut' = [tut EXCEPT ![w].pc = "save_assistant",
                             ![w].sent = ExpandedChat(chat_row.topic, chat_row.context,
                                                      tut[w].chat),
                             ![w].calls = @ + 1,
                             ![w].response_obj = IF outcome.error = NULL THEN "completion"
                                                 ELSE "error",
                             ![w].response_txt = GetCompletion(outcome),
                             ![w].chat = AppendTurn(@, Turn("assistant",
                                                            GetCompletion(outcome)))]
    /\ query_tokens' =
          IF /\ outcome.error # NULL
             /\ req[w].auth.class_id = NULL /\ req[w].auth.auth_provider # "local"
          THEN [query_tokens EXCEPT ![req[w].auth.user_id] = @ + 1]
          ELSE query_tokens
    /\ UNCHANGED <<enabled, consumers, classes_lti, classes_user, req, tutor_chats>>

\* variant: a failed call is made once more before its error is taken
RoundGetResponse_Retry(w, outcome) ==
    /\ tut[w].pc = "get_response"
    /\ LET chat_row == tutor_chats[tut[w].chat_id]
       IN IF outcome.error # NULL /\ tut[w].calls = 0
          THEN tut' = [tut EXCEPT ![w].sent = ExpandedChat(chat_row.topic,
                                                           chat_row.context, tut[w].chat),
                                  ![w].calls = @ + 1]
          ELSE tut' = [tut EXCEPT ![w].pc = "save_assistant",
                                  ![w].sent = ExpandedChat(chat_row.topic,
                                                           chat_row.context, tut[w].chat),
                                  ![w].calls = @ + 1,
                                  ![w].response_obj = IF outcome.error = NULL
                                                      THEN "completion" ELSE "error",
                                  ![w].response_txt = GetCompletion(outcome),
                                  ![w].chat = AppendTurn(@, Turn("assistant",
                                                                 GetCompletion(outcome)))]
    /\ UNCHANGED <<query_tokens, enabled, consumers, classes_lti, classes_user, req,
                   tutor_chats>>

\* run_chat_round: get_response on the expanded chat (one await of create
\* inside get_completion), and the append of the response text
RoundGetResponse(w, outcome) ==
    /\ tut[w].pc = "get_response"
    /\ LET chat_row == tutor_chats[tut[w].chat_id]
       IN tut' = [tut EXCEPT ![w].pc = "save_assistant",
                             ![w].sent = ExpandedChat(chat_row.topic, chat_row.context,
                                                      tut[w].chat),
                             ![w].calls = @ + 1,
                             ![w].response_obj = IF outcome.error = NULL THEN "completion"
                                                 ELSE "error",
                             ![w].response_txt = GetCompletion(outcome),
                             ![w].chat = AppendTurn(@, Turn("assistant",
                                                            GetCompletion(outcome)))]
    /\ UNCHANGED <<query_tokens, enabled, consumers, classes_lti, classes_user, req,
                   tutor_chats>>

\* run_chat_round: the second save_chat; the handler then redirects
RoundSaveAssistant(w) ==
    /\ tut[w].pc = "save_assistant"
    /\ tutor_chats' = SaveChat(tut[w].chat_id, tut[w].chat)
    /\ tut' = [tut EXCEPT ![w] = Responded(@, "redirect: chat_interface")]
    /\ UNCHANGED <<query_tokens, enabled, consumers, classes_lti, classes_user, req>>

\* the response is sent and the worker is done with the request
Close(w) ==
    /\ tut[w].pc = "responded"
    /\ tut' = [tut EXCEPT ![w] = ClosedTut]
    /\ req' = [req EXCEPT ![w] = ClosedReq]
    /\ UNCHANGED <<query_tokens, enabled, consumers, classes_lti, classes_user,
                   tutor_chats>>

\* -------------------------------------------------------- specification
ConsumerRows == [openai_key : FormKeys, model_id : FormModels]
UserRows == {[openai_key |-> "KU1", model_id |-> 1]}

Init ==
    /\ query_tokens \in [Users -> 0..MaxTokens]
    /\ query_tokens["u2"] = 0
    /\ enabled \in [Classes -> BOOLEAN]
    /\ enabled["c2"]
    /\ \E lti \in {NullId, 1} : classes_lti = [c \in Classes |-> IF c = "c1" THEN lti ELSE NullId]
    /\ \E row \in ConsumerRows \cup {NoRow} : consumers = [i \in ConsumerIds |-> row]
    /\ \A c \in Classes : classes_lti[c] # NullId => consumers[classes_lti[c]] # NoRow
    /\ \E row \in UserRows \cup {NoRow} :
          classes_user = [c \in Classes |->
                            IF c = "c1" THEN row
                            ELSE [openai_key |-> "KU2", model_id |-> 2]]
    /\ req = [w \in Workers |-> IdleReq]
    /\ tutor_chats = <<>>
    /\ tut = [w \in Workers |-> IdleTut]
    /\ id_store = [users |-> users, roles |-> roles]
    /\ g_auth = IdleG
    /\ completion = IdleCompletion
    /\ session = NoSession
    /\ accounts = NoAccounts
    /\ consumers_lti = LtiColumnsOf(consumers)
    /\ registry = ReloadConsumers(consumers_lti)
    /\ admin = NoAdmin

\* requests to the endpoints under with_llm other than the tutor's
Next ==
    \/ \E w \in Workers, su \in Users \cup {NULL}, sc \in Classes \cup {NULL}, k \in BOOLEAN :
          GetLLM(w, su, sc, k) /\ UNCHANGED <<tutor_chats, tut, id_store, g_auth, completion, session, accounts,
                       consumers_lti, registry, admin>>
    \/ \E w \in Workers : Decrement(w) /\ UNCHANGED <<tutor_chats, tut, id_store, g_auth, completion, session, accounts,
                       consumers_lti, registry, admin>>
    \/ \E cid \in ConsumerIds \cup {NullId}, op \in {"insert", "clear_openai_key", "update"},
          key \in FormKeys, m \in FormModels :
          ConsumerUpdate(cid, op, "lms", "", key, m)
             /\ UNCHANGED <<tutor_chats, tut, id_store, g_auth, completion, session, accounts>>
    \/ \E key \in FormKeys : PlumConsumerInsert("lms", "", key)
             /\ UNCHANGED <<tutor_chats, tut, id_store, g_auth, completion, session, accounts>>

Spec == Init /\ [][Next]_vars

\* Requests served one at a time: a request is taken up only when no other
\* request is between its SELECT of query_tokens and its UPDATE.
NoneInFlight == \A w \in Workers : req[w].pc # "decrement"

SeqGetLLM(w, sess_user, sess_class, use_system_key) ==
    /\ NoneInFlight
    /\ GetLLM(w, sess_user, sess_class, use_system_key)

NextSeq ==
    \/ \E w \in Workers, su \in Users \cup {NULL}, sc \in Classes \cup {NULL}, k \in BOOLEAN :
          SeqGetLLM(w, su, sc, k) /\ UNCHANGED <<tutor_chats, tut, id_store, g_auth, completion, session, accounts,
                       consumers_lti, registry, admin>>
    \/ \E w \in Workers : Decrement(w) /\ UNCHANGED <<tutor_chats, tut, id_store, g_auth, completion, session, accounts,
                       consumers_lti, registry, admin>>
    \/ \E cid \in ConsumerIds \cup {NullId}, op \in {"insert", "clear_openai_key", "update"},
          key \in FormKeys, m \in FormModels :
          ConsumerUpdate(cid, op, "lms", "", key, m)
             /\ UNCHANGED <<tutor_chats, tut, id_store, g_auth, completion, session, accounts>>
    \/ \E key \in FormKeys : PlumConsumerInsert("lms", "", key)
             /\ UNCHANGED <<tutor_chats, tut, id_store, g_auth, completion, session, accounts>>

SpecSeq == Init /\ [][NextSeq]_vars

\* ------------------------------------------------- the tutor's requests
\* a chat started earlier, its opening turn saved
StartedChats ==
    {[user_id |-> u, role_id |-> r, topic |-> "topic", context |-> NULL,
      chat_json |-> <<Turn("assistant", GetCompletion(Completion("r1", "stop")))>>] :
        u \in Users, r \in {NullId} \cup DOMAIN roles} 

TutorInit ==
    /\ query_tokens \in [Users -> 0..MaxTokens]
    /\ query_tokens["u2"] = 0
    /\ enabled = [c \in Classes |-> TRUE]
    /\ classes_lti = [c \in Classes |-> IF c = "c1" THEN 1 ELSE NullId]
    /\ consumers = [i \in ConsumerIds |-> [openai_key |-> "KL", model_id |-> 2]]
    /\ classes_user = [c \in Classes |->
                         IF c = "c1" THEN NoRow
                         ELSE [openai_key |-> "KU2", model_id |-> 2]]
    /\ req = [w \in Workers |-> IdleReq]
    /\ tut = [w \in Workers |-> IdleTut]
    /\ id_store = [users |-> users, roles |-> roles]
    /\ g_auth = IdleG
    /\ completion = IdleCompletion
    /\ session = NoSession
    /\ accounts = NoAccounts
    /\ consumers_lti = LtiColumnsOf(consumers)
    /\ registry = ReloadConsumers(consumers_lti)
    /\ admin = NoAdmin
    /\ \/ tutor_chats = <<>>
       \/ \E row \in StartedChats :
             /\ row.role_id # NullId => roles[row.role_id].user_id = row.user_id
             /\ tutor_chats = <<row>>

\* what the provider does with a tutor's call
TutorOutcomes ==
    {Completion("r2", f) : f \in {"stop", "length"}}
    \cup {ApiError("RateLimitError", <<QuotaPhrase>>), ApiError("APITimeoutError", <<>>)}

\* the steps of a tutor request after its first
TutorSteps ==
    \/ \E w \in Workers : Decrement(w) /\ UNCHANGED <<tutor_chats, tut, id_store, g_auth, completion, session, accounts,
                       consumers_lti, registry, admin>>
    \/ \E w \in Workers : WithLLMDenied(w)
             /\ UNCHANGED <<id_store, g_auth, completion, session, accounts,
                            consumers_lti, registry, admin>>
    \/ \E w \in Workers : CreateChat(w)
             /\ UNCHANGED <<id_store, g_auth, completion, session, accounts,
                            consumers_lti, registry, admin>>
    \/ \E w \in Workers : RoundLoad(w)
             /\ UNCHANGED <<id_store, g_auth, completion, session, accounts,
                            consumers_lti, registry, admin>>
    \/ \E w \in Workers : RoundSaveUser(w)
             /\ UNCHANGED <<id_store, g_auth, completion, session, accounts,
                            consumers_lti, registry, admin>>
    \/ \E w \in Workers, outcome \in TutorOutcomes : RoundGetResponse(w, outcome)
             /\ UNCHANGED <<id_store, g_auth, completion, session, accounts,
                            consumers_lti, registry, admin>>
    \/ \E w \in Workers : RoundSaveAssistant(w)
             /\ UNCHANGED <<id_store, g_auth, completion, session, accounts,
                            consumers_lti, registry, admin>>
    \/ \E w \in Workers : Close(w)
             /\ UNCHANGED <<id_store, g_auth, completion, session, accounts,
                            consumers_lti, registry, admin>>

\* Tutor requests served one at a time: a request is taken up only when
\* every earlier one has been answered.
NoneOpen == \A w \in Workers : tut[w].pc \in {"idle", "closed"}
\* worker w takes the w-th request
InTurn(w) == NoneOpen /\ \A v \in Workers : v < w => tut[v].pc = "closed"

NextTutor ==
    \/ \E w \in Workers, su \in Users \cup Admins \cup NonTesters \cup {NULL}, sc \in Classes \cup {NULL},
          topic \in Topics, context \in Contexts :
          InTurn(w) /\ StartChat(w, su, sc, topic, context)
             /\ UNCHANGED <<id_store, g_auth, completion, session, accounts,
                            consumers_lti, registry, admin>>
    \/ \E w \in Workers, su \in Users \cup Admins \cup NonTesters \cup {NULL}, sc \in Classes \cup {NULL},
          chat_id \in FormIds, message \in {"m1"} :
          InTurn(w) /\ NewMessage(w, su, sc, chat_id, message)
             /\ UNCHANGED <<id_store, g_auth, completion, session, accounts,
                            consumers_lti, registry, admin>>
    \/ \E w \in Workers, su \in Users \cup Admins \cup NonTesters \cup {NULL}, sc \in Classes \cup {NULL},
          chat_id \in FormIds :
          InTurn(w) /\ ChatInterface(w, su, sc, chat_id)
             /\ UNCHANGED <<id_store, g_auth, completion, session, accounts,
                            consumers_lti, registry, admin>>
    \/ TutorSteps

SpecTutor == TutorInit /\ [][NextTutor]_vars

\* ---- tutor requests against classes in every state of their configuration:
\* c1 is enabled and has its consumer's key; c2 may be disabled or keyless
DenialInit ==
    /\ query_tokens = [u \in Users |-> IF u = "u1" THEN 1 ELSE 0]
    /\ enabled \in [Classes -> BOOLEAN]
    /\ enabled["c1"]
    /\ classes_lti = [c \in Classes |-> IF c = "c1" THEN 1 ELSE NullId]
    /\ consumers = [i \in ConsumerIds |-> [openai_key |-> "KL", model_id |-> 2]]
    /\ \E row \in {NoRow, [openai_key |-> "KU2", model_id |-> 2]} :
          classes_user = [c \in Classes |-> IF c = "c1" THEN NoRow ELSE row]
    /\ req = [w \in Workers |-> IdleReq]
    /\ tut = [w \in Workers |-> IdleTut]
    /\ id_store = [users |-> users, roles |-> roles]
    /\ g_auth = IdleG
    /\ completion = IdleCompletion
    /\ session = NoSession
    /\ accounts = NoAccounts
    /\ consumers_lti = LtiColumnsOf(consumers)
    /\ registry = ReloadConsumers(consumers_lti)
    /\ admin = NoAdmin
    /\ \/ tutor_chats = <<>>
       \/ \E row \in StartedChats :
             /\ row.user_id = "u1" /\ row.role_id = NullId
             /\ tutor_chats = <<row>>

SpecDenial == DenialInit /\ [][NextTutor]_vars

\* Continue requests of the members of class c1, served concurrently: each
\* SQL statement and the provider call is a step of its own.
NextRace ==
    \/ \E w \in Workers, su \in Users, chat_id \in ChatIds, message \in Messages :
          NewMessage(w, su, "c1", chat_id, message)
             /\ UNCHANGED <<id_store, g_auth, completion, session, accounts,
                            consumers_lti, registry, admin>>
    \/ \E w \in Workers : RoundLoad(w)
             /\ UNCHANGED <<id_store, g_auth, completion, session, accounts,
                            consumers_lti, registry, admin>>
    \/ \E w \in Workers : RoundSaveUser(w)
             /\ UNCHANGED <<id_store, g_auth, completion, session, accounts,
                            consumers_lti, registry, admin>>
    \/ \E w \in Workers, outcome \in TutorOutcomes : RoundGetResponse(w, outcome)
             /\ UNCHANGED <<id_store, g_auth, completion, session, accounts,
                            consumers_lti, registry, admin>>
    \/ \E w \in Workers : RoundSaveAssistant(w)
             /\ UNCHANGED <<id_store, g_auth, completion, session, accounts,
                            consumers_lti, registry, admin>>
    \/ \E w \in Workers : Close(w)
             /\ UNCHANGED <<id_store, g_auth, completion, session, accounts,
                            consumers_lti, registry, admin>>

SpecRace == TutorInit /\ [][NextRace]_vars

\* ---- get_auth on every state of the users and roles tables
\* the users whose sessions are resolved: a member and an admin
AuthUsers == {"u1", "u3"}
\* the users table with some of them deleted
UserTables == {[u \in D |-> users[u]] : D \in SUBSET AuthUsers}
\* the roles table: one row at most per user and class; a row is missing,
\* inactive, or active as a student or an instructor
RoleSlots == <<[user_id |-> "u1", class_id |-> "c1"], [user_id |-> "u1", class_id |-> "c2"],
               [user_id |-> "u3", class_id |-> "c1"], [user_id |-> "u3", class_id |-> "c2"]>>
RoleTables ==
    {[i \in {j \in DOMAIN RoleSlots : st[j] # "missing"} |->
        [user_id |-> RoleSlots[i].user_id, class_id |-> RoleSlots[i].class_id,
         role |-> IF st[i] = "inactive" THEN "student" ELSE st[i],
         active |-> st[i] # "inactive"]] :
     st \in [DOMAIN RoleSlots -> {"missing", "inactive", "student", "instructor"}]}

AuthInit ==
    /\ query_tokens = [u \in Users |-> 0]
    /\ enabled \in [Classes -> BOOLEAN]
    /\ classes_lti = [c \in Classes |-> NullId]
    /\ consumers = [i \in ConsumerIds |-> NoRow]
    /\ classes_user = [c \in Classes |-> NoRow]
    /\ req = [w \in Workers |-> IdleReq]
    /\ tutor_chats = <<>>
    /\ tut = [w \in Workers |-> IdleTut]
    /\ \E users_tbl \in UserTables, roles_tbl \in RoleTables :
          id_store = [users |-> users_tbl, roles |-> roles_tbl]
    /\ g_auth = IdleG
    /\ completion = IdleCompletion
    /\ session = NoSession
    /\ accounts = NoAccounts
    /\ consumers_lti = LtiColumnsOf(consumers)
    /\ registry = ReloadConsumers(consumers_lti)
    /\ admin = NoAdmin

\* requests, one after another; between two of them the tables are as
\* somebody else left them
NextAuth ==
    \/ \E su \in AuthUsers \cup {NULL}, sc \in Classes \cup {NULL} : GetAuth(su, sc)
    \/ EndRequest

SpecAuth == AuthInit /\ [][NextAuth]_vars

\* ---- get_completion on every kind of outcome of the provider call
\* pieces of an exception's message
Fragments == {QuotaPhrase, ContextPhrase, "Incorrect API key provided: sk-abc",
              "Request req_1 failed"}
\* str(e): up to MaxFragments pieces
ErrStrs == UNION {[1..n -> Fragments] : n \in 0..MaxFragments}
ClassifyOutcomes ==
    {ApiError(cls, str) : cls \in ErrorClasses, str \in ErrStrs}
    \cup {Completion(r, f) : r \in Replies, f \in {"stop", "length"}}

ClassifyInit ==
    /\ query_tokens = [u \in Users |-> 0]
    /\ enabled = [c \in Classes |-> TRUE]
    /\ classes_lti = [c \in Classes |-> NullId]
    /\ consumers = [i \in ConsumerIds |-> NoRow]
    /\ classes_user = [c \in Classes |-> NoRow]
    /\ req = [w \in Workers |-> IdleReq]
    /\ tutor_chats = <<>>
    /\ tut = [w \in Workers |-> IdleTut]
    /\ id_store = [users |-> users, roles |-> roles]
    /\ g_auth = IdleG
    /\ completion = IdleCompletion
    /\ session = NoSession
    /\ accounts = NoAccounts
    /\ consumers_lti = LtiColumnsOf(consumers)
    /\ registry = ReloadConsumers(consumers_lti)
    /\ admin = NoAdmin

NextClassify == \E outcome \in ClassifyOutcomes : CallGetCompletion(outcome)

SpecClassify == ClassifyInit /\ [][NextClassify]_vars

\* ---- the consumer forms of the admin pages on a table of two consumers
LtiIds == {1, 2}
LtiNames == {"lmsA", "lmsB"}
LtiSecrets == {"", "s1", "s2"}
\* stored consumers: rows with different names
LtiTables ==
    {t \in [LtiIds -> [lti_consumer : LtiNames, lti_secret : {"s1"}] \cup {NoLti}] :
        \A i, j \in LtiIds :
            (i # j /\ t[i] # NoLti /\ t[j] # NoLti) => t[i].lti_consumer # t[j].lti_consumer}

ConsumersInit ==
    /\ query_tokens = [u \in Users |-> 0]
    /\ enabled = [c \in Classes |-> TRUE]
    /\ \E t \in LtiTables :
          /\ consumers_lti = t
          /\ consumers = [i \in LtiIds |->
                            IF t[i] = NoLti THEN NoRow
                            ELSE [openai_key |-> "KL", model_id |-> 2]]
    /\ \E lti \in {NullId, 1} :
          /\ lti # NullId => consumers[lti] # NoRow
          /\ classes_lti = [c \in Classes |-> IF c = "c1" THEN lti ELSE NullId]
    /\ classes_user = [c \in Classes |-> NoRow]
    /\ req = [w \in Workers |-> IdleReq]
    /\ tutor_chats = <<>>
    /\ tut = [w \in Workers |-> IdleTut]
    /\ id_store = [users |-> users, roles |-> roles]
    /\ g_auth = IdleG
    /\ completion = IdleCompletion
    /\ session = NoSession
    /\ accounts = NoAccounts
    /\ registry = ReloadConsumers(consumers_lti)
    /\ admin = NoAdmin

NextConsumers ==
    \/ \E cid \in LtiIds \cup {NullId},
          op \in {"insert", "clear_lti_secret", "clear_openai_key", "update"},
          name \in LtiNames, secret \in LtiSecrets, key \in FormKeys :
          ConsumerUpdate(cid, op, name, secret, key, 2)
             /\ UNCHANGED <<tutor_chats, tut, id_store, g_auth, completion, session, accounts>>
    \/ \E cid \in LtiIds \cup {3} :
          ConsumerDelete(cid)
             /\ UNCHANGED <<tutor_chats, tut, id_store, g_auth, completion, session, accounts>>
    \/ \E name \in LtiNames, secret \in LtiSecrets, key \in FormKeys :
          PlumConsumerInsert(name, secret, key)
             /\ UNCHANGED <<tutor_chats, tut, id_store, g_auth, completion, session, accounts>>

SpecConsumers == ConsumersInit /\ [][NextConsumers]_vars

\* ---- one browser session: its requests, one after another
SessionInit ==
    /\ query_tokens \in [Users -> 0..MaxTokens]
    /\ query_tokens["u2"] = 0
    /\ enabled \in [Classes -> BOOLEAN]
    /\ classes_lti = [c \in Classes |-> NullId]
    /\ consumers = [i \in ConsumerIds |-> NoRow]
    /\ classes_user = [c \in Classes |->
                         IF c = "c1" THEN [openai_key |-> "KU1", model_id |-> 1]
                         ELSE [openai_key |-> "KU2", model_id |-> 2]]
    /\ req = [w \in Workers |-> IdleReq]
    /\ tutor_chats = <<>>
    /\ tut = [w \in Workers |-> IdleTut]
    /\ id_store = [users |-> users, roles |-> roles]
    /\ g_auth = IdleG
    /\ completion = IdleCompletion
    /\ session = NoSession
    /\ accounts = NoAccounts
    /\ consumers_lti = LtiColumnsOf(consumers)
    /\ registry = ReloadConsumers(consumers_lti)
    /\ admin = NoAdmin

\* login calls set_session_auth_user and then set_session_auth_class; a
\* switch of class calls the latter alone
NextSession ==
    \/ \E u \in AuthUsers : SetSessionAuthUser(u)
    \/ \E c \in Classes \cup {NULL} : SetSessionAuthClass(c)
    \/ SessionGetAuth
    \/ \E w \in Workers, k \in BOOLEAN : SessionGetLLM(w, k)
    \/ \E w \in Workers :
          Decrement(w) /\ UNCHANGED <<tutor_chats, tut, id_store, g_auth, completion,
                                      session, accounts, consumers_lti, registry, admin>>
    \/ Logout
    \/ EndRequest

SpecSession == SessionInit /\ [][NextSession]_vars

\* ---- external logins: the users and auth_external tables
\* the people who log in: an id means nothing outside its provider
Identities == {<<"google", "e1">>, <<"google", "e2">>, <<"github", "e1">>}
AuthNames == {"n1", "n2"}

\* SELECT * FROM auth_external WHERE auth_provider=? AND ext_id=?
AuthRows(provider, ext_id) ==
    {r \in accounts.external : r.auth_provider = provider /\ r.ext_id = ext_id}

\* the UPDATE of an account that exists already
UpdateAccount_Replenish(row, auth_name, tokens) ==
    [row EXCEPT !.auth_name = auth_name, !.query_tokens = tokens]

UpdateAccount(row, auth_name, tokens) ==
    [row EXCEPT !.auth_name = auth_name]

\* ext_login_update_or_create, from its SELECT to its return
ExtLogin(provider, ext_id, auth_name, tokens) ==
    /\ IF AuthRows(provider, ext_id) # {}
       THEN LET user_id == (CHOOSE r \in AuthRows(provider, ext_id) : TRUE).user_id
            IN  accounts' = [accounts EXCEPT
                    !.users[user_id] = UpdateAccount(@, auth_name, tokens),
                    !.returned = user_id,
                    !.login = [provider |-> provider, ext_id |-> ext_id,
                               query_tokens |-> tokens]]
       ELSE LET user_id == Len(accounts.users) + 1
            IN  accounts' = [accounts EXCEPT
                    !.users = Append(@, [auth_provider |-> provider,
                                         auth_name |-> auth_name,
                                         query_tokens |-> tokens]),
                    !.external = @ \cup {[user_id |-> user_id,
                                          auth_provider |-> provider,
                                          ext_id |-> ext_id]},
                    !.returned = user_id,
                    !.login = [provider |-> provider, ext_id |-> ext_id,
                               query_tokens |-> tokens]]
    /\ UNCHANGED <<query_tokens, enabled, consumers, classes_lti, classes_user, req,
                   tutor_chats, tut, id_store, g_auth, completion, session,
                   consumers_lti, registry, admin>>

\* a later request of the account spends one token: the metered path's
\* UPDATE users SET query_tokens=query_tokens-1
SpendToken(user_id) ==
    /\ user_id \in DOMAIN accounts.users
    /\ accounts.users[user_id].query_tokens > 0
    /\ accounts' = [accounts EXCEPT !.users[user_id].query_tokens = @ - 1,
                                    !.returned = NullId,
                                    !.login = NoLogin]
    /\ UNCHANGED <<query_tokens, enabled, consumers, classes_lti, classes_user, req,
                   tutor_chats, tut, id_store, g_auth, completion, session,
                   consumers_lti, registry, admin>>

LoginInit ==
    /\ query_tokens = [u \in Users |-> 0]
    /\ enabled = [c \in Classes |-> TRUE]
    /\ classes_lti = [c \in Classes |-> NullId]
    /\ consumers = [i \in ConsumerIds |-> NoRow]
    /\ classes_user = [c \in Classes |-> NoRow]
    /\ req = [w \in Workers |-> IdleReq]
    /\ tutor_chats = <<>>
    /\ tut = [w \in Workers |-> IdleTut]
    /\ id_store = [users |-> users, roles |-> roles]
    /\ g_auth = IdleG
    /\ completion = IdleCompletion
    /\ session = NoSession
    /\ accounts = NoAccounts
    /\ consumers_lti = LtiColumnsOf(consumers)
    /\ registry = ReloadConsumers(consumers_lti)
    /\ admin = NoAdmin

NextLogin ==
    \/ \E id \in Identities, auth_name \in AuthNames, tokens \in 0..MaxTokens :
          ExtLogin(id[1], id[2], auth_name, tokens)
    \/ \E user_id \in 1..Cardinality(Identities) :
          SpendToken(user_id)

SpecLogin == LoginInit /\ [][NextLogin]_vars

\* ---- metered requests of the token users, workers taking one request after
\* another while other workers' requests are in flight
\* the worker has answered its request and is free for the next one
Release(w) ==
    /\ req[w].pc = "done"
    /\ req' = [req EXCEPT ![w] = IdleReq]
    /\ UNCHANGED <<query_tokens, enabled, consumers, classes_lti, classes_user,
                   tutor_chats, tut, id_store, g_auth, completion, session, accounts,
                   consumers_lti, registry, admin>>

MeterInit ==
    /\ query_tokens \in [Users -> 0..MaxTokens]
    /\ enabled = [c \in Classes |-> TRUE]
    /\ classes_lti = [c \in Classes |-> NullId]
    /\ consumers = [i \in ConsumerIds |-> NoRow]
    /\ classes_user = [c \in Classes |-> NoRow]
    /\ req = [w \in Workers |-> IdleReq]
    /\ tutor_chats = <<>>
    /\ tut = [w \in Workers |-> IdleTut]
    /\ id_store = [users |-> users, roles |-> roles]
    /\ g_auth = IdleG
    /\ completion = IdleCompletion
    /\ session = NoSession
    /\ accounts = NoAccounts
    /\ consumers_lti = LtiColumnsOf(consumers)
    /\ registry = ReloadConsumers(consumers_lti)
    /\ admin = NoAdmin

\* the balance is followed down to -MaxTokens
NextMeter ==
    \/ \E w \in Workers, su \in Users, k \in BOOLEAN :
          /\ query_tokens[su] > -MaxTokens
          /\ GetLLM(w, su, NULL, k)
          /\ UNCHANGED <<tutor_chats, tut, id_store, g_auth, completion, session,
                         accounts, consumers_lti, registry, admin>>
    \/ \E w \in Workers :
          Decrement(w) /\ UNCHANGED <<tutor_chats, tut, id_store, g_auth, completion,
                                      session, accounts, consumers_lti, registry, admin>>
    \/ \E w \in Workers : Release(w)

SpecMeter == MeterInit /\ [][NextMeter]_vars

\* ---- requests to an endpoint under @class_enabled_required @with_llm()
ClassClosedFlash == "The current class is archived or disabled.  New requests cannot be made."

\* variant: a caller without a class is turned away too
class_enabled_required_ClassNeeded(auth) ==
    IF auth.class_id = NULL THEN "error.html"
    ELSE IF ~enabled[auth.class_id] THEN "error.html"
    ELSE "ok"

\* class_enabled_required: "ok" when it calls the wrapped function
class_enabled_required(auth) ==
    IF auth.class_id = NULL THEN "ok"
    ELSE IF ~enabled[auth.class_id] THEN "error.html"
    ELSE "ok"

\* the request up to the decorator's return: the error page, or the wrapped
\* function running as far as GetLLM takes it
GuardedRequest(w, sess_user, sess_class, use_system_key) ==
    /\ req[w].pc = "idle"
    /\ LET auth == GetAuthFromSession(sess_user, sess_class)
       IN IF class_enabled_required(auth) = "ok"
          THEN GetLLM(w, sess_user, sess_class, use_system_key)
          ELSE /\ req' = [req EXCEPT ![w] = [IdleReq EXCEPT !.pc = "done", !.auth = auth,
                                                            !.flashed = ClassClosedFlash]]
               /\ UNCHANGED <<query_tokens, enabled, consumers, classes_lti,
                              classes_user>>
    /\ UNCHANGED <<tutor_chats, tut, id_store, g_auth, completion, session, accounts,
                   consumers_lti, registry, admin>>

NextGuard ==
    \/ \E w \in Workers, su \in Users \cup {NULL}, sc \in Classes \cup {NULL},
          k \in BOOLEAN :
          GuardedRequest(w, su, sc, k)
    \/ \E w \in Workers :
          Decrement(w) /\ UNCHANGED <<tutor_chats, tut, id_store, g_auth, completion,
                                      session, accounts, consumers_lti, registry, admin>>

SpecGuard == Init /\ [][NextGuard]_vars

\* ================================================================ claims
\* the step in which worker w runs _get_llm up to its return, raise or SELECT
Resolves(w) == req[w].pc = "idle" /\ req'[w].pc # "idle"
\* the step in which worker w runs the UPDATE and returns
Decrements(w) == req[w].pc = "decrement" /\ req'[w].pc # "decrement"
Normal(r) == ~r.use_system_key
\* r went down the metered path for user u
MeteredReq(r, u) ==
    /\ r.pc # "idle" /\ Normal(r)
    /\ r.auth.user_id = u /\ r.auth.class_id = NULL /\ r.auth.auth_provider # "local"
Min(a, b) == IF a <= b THEN a ELSE b
Denials == {"ClassDisabledError", "NoKeyFoundError", "NoTokensError"}
SystemDefault == [kind |-> "Ok", key |-> "SYS", model |-> "M1"]

\* C1: N concurrent metered resolutions of one identity against balance B:
\* once all have returned, exactly min(N, B) succeeded and the balance is
\* B - min(N, B).  (B is the balance before them: the balance now plus the
\* decrements made.)
C1_ExactlyMinSucceed ==
    \A u \in Users :
        LET M == {w \in Workers : MeteredReq(req[w], u)}
            G == {w \in M : req[w].result.kind = "Ok"}
            N == Cardinality(M)
            B == query_tokens[u] + Cardinality(G)
        IN (M # {} /\ \A w \in M : req[w].pc = "done") =>
              /\ Cardinality(G) = Min(N, B)
              /\ query_tokens[u] = B - Min(N, B)

\* C2: every identity's token balance is >= 0 in every reachable state.
C2_BalanceNonNegative == \A u \in Users : query_tokens[u] >= 0

\* C3: a Normal-mode resolution for an identity whose active tenant is
\* disabled returns TenantDisabled and leaves all balances unchanged.
C3_DisabledTenantDenied ==
    [][\A w \in Workers :
          (/\ Resolves(w) /\ Normal(req'[w])
           /\ req'[w].auth.class_id # NULL
           /\ ~enabled[req'[w].auth.class_id])
          => /\ req'[w].pc = "done"
             /\ req'[w].result = [kind |-> "ClassDisabledError", key |-> NULL, model |-> NULL]
             /\ query_tokens' = query_tokens]_vars

C3_Witness ==
    \E w \in Workers :
        /\ req[w].pc = "done" /\ Normal(req[w])
        /\ req[w].auth.user_id = "u1" /\ req[w].auth.class_id = "c1"
        /\ ~enabled["c1"] /\ query_tokens["u1"] >= 1
        /\ ClassRow("c1").openai_key = "KL"
        /\ req[w].result.kind = "ClassDisabledError"

\* C4: with an enabled active tenant that has a key K and a model M, a
\* Normal-mode resolution returns that tenant's K and M (not the system
\* default, not another tenant's) and leaves all balances unchanged.
C4_TenantCredential ==
    [][\A w \in Workers :
          LET c == req'[w].auth.class_id IN
          (/\ Resolves(w) /\ Normal(req'[w])
           /\ c # NULL /\ enabled[c]
           /\ ClassRow(c).openai_key \notin {NULL, ""}
           /\ ClassRow(c).model # NULL)
          => /\ req'[w].pc = "done"
             /\ req'[w].result.kind = "Ok"
             /\ req'[w].result.key = ClassRow(c).openai_key
             /\ req'[w].result.model = ClassRow(c).model
             /\ req'[w].result.key \in {ConsumerOf(c).openai_key, UserRowOf(c).openai_key}
             /\ req'[w].result.key # SYSTEM_KEY
             /\ query_tokens' = query_tokens]_vars

C4_Witness ==
    \E w \in Workers :
        /\ req[w].pc = "done" /\ Normal(req[w])
        /\ req[w].auth.user_id = "u1" /\ req[w].auth.class_id = "c1"
        /\ enabled["c1"] /\ classes_lti["c1"] = NullId
        /\ query_tokens["u1"] = 0
        /\ req[w].result = [kind |-> "Ok", key |-> "KU1", model |-> "M1"]

\* C5: with use_system_key the resolution succeeds with the system default
\* key and model for every caller and tenant state, and changes no balance.
C5_SystemOverride ==
    [][\A w \in Workers :
          (Resolves(w) /\ req'[w].use_system_key)
          => /\ req'[w].pc = "done"
             /\ req'[w].result = SystemDefault
             /\ query_tokens' = query_tokens]_vars

C5_Witness ==
    \E w1, w2 \in Workers :
        /\ req[w1].pc = "done" /\ req[w1].use_system_key
        /\ req[w1].auth.user_id = NULL /\ req[w1].result = SystemDefault
        /\ req[w2].pc = "done" /\ req[w2].use_system_key
        /\ req[w2].auth.user_id = "u1" /\ req[w2].auth.class_id = "c1"
        /\ ~enabled["c1"] /\ ClassRow("c1").openai_key = ""
        /\ query_tokens["u1"] = 0
        /\ req[w2].result = SystemDefault

\* C6: with requests served one at a time, Normal-mode resolutions of an
\* externally authenticated identity without active tenant count down: at
\* balance 0 the call raises NoTokensError and the balance stays 0; at a
\* balance B >= 1 it returns the system default and the balance becomes B - 1.
C6_SequentialCounter ==
    [][\A w \in Workers, u \in Users :
          /\ (Resolves(w) /\ MeteredReq(req'[w], u))
             => /\ query_tokens' = query_tokens
                /\ query_tokens[u] >= 0
                /\ IF query_tokens[u] = 0
                   THEN req'[w].pc = "done" /\ req'[w].result.kind = "NoTokensError"
                   ELSE req'[w].pc = "decrement"
          /\ (Decrements(w) /\ MeteredReq(req[w], u))
             => /\ query_tokens[u] >= 1
                /\ query_tokens'[u] = query_tokens[u] - 1
                /\ req'[w].pc = "done"
                /\ req'[w].result = SystemDefault]_vars

\* from balance 1: one call succeeded (balance 0), the next was denied
C6_Witness ==
    \E w1, w2 \in Workers :
        /\ MeteredReq(req[w1], "u1") /\ MeteredReq(req[w2], "u1")
        /\ req[w1].pc = "done" /\ req[w1].result = SystemDefault
        /\ req[w2].pc = "done" /\ req[w2].result.kind = "NoTokensError"
        /\ query_tokens["u1"] = 0

\* C7: only the metered path changes state: every step of a resolution but
\* the UPDATE leaves all balances unchanged (so every denial and every
\* success by system key, tenant key or local auth does); the UPDATE lowers
\* the caller's balance by exactly 1, leaves the others, and a resolution
\* that has returned never acts again.
C7_OnlyMeteredMutates ==
    [][/\ \A w \in Workers :
            /\ Resolves(w) => query_tokens' = query_tokens
            /\ (Resolves(w) /\ req'[w].pc = "done" /\ req'[w].result.kind = "Ok")
                  => ~MeteredReq(req'[w], req'[w].auth.user_id)
            /\ Decrements(w) =>
                  /\ MeteredReq(req[w], req[w].auth.user_id)
                  /\ req'[w].pc = "done" /\ req'[w].result.kind = "Ok"
                  /\ query_tokens' = [query_tokens EXCEPT ![req[w].auth.user_id] = @ - 1]
            /\ req[w].pc = "done" => req'[w] = req[w]
       /\ query_tokens' # query_tokens => \E w \in Workers : Decrements(w)]_vars

C7_Witness ==
    \E w1, w2 \in Workers :
        /\ MeteredReq(req[w1], "u1") /\ req[w1].pc = "done" /\ req[w1].result.kind = "Ok"
        /\ query_tokens["u1"] = MaxTokens - 1
        /\ req[w2].pc = "done" /\ req[w2].result.kind \in Denials
        /\ query_tokens["u2"] = 0

\* C8: an enabled active tenant without a key (NULL or empty) makes a
\* Normal-mode resolution raise NoKeyFoundError, for local and metered
\* callers alike; a tenant that is disabled and keyless gives
\* ClassDisabledError.  No balance changes.
C8_NoKeyConfigured ==
    [][\A w \in Workers :
          LET c == req'[w].auth.class_id IN
          (/\ Resolves(w) /\ Normal(req'[w])
           /\ c # NULL
           /\ ClassRow(c).openai_key \in {NULL, ""})
          => /\ req'[w].pc = "done"
             /\ req'[w].result.kind =
                   IF enabled[c] THEN "NoKeyFoundError" ELSE "ClassDisabledError"
             /\ query_tokens' = query_tokens]_vars

C8_Witness ==
    \E w1, w2 \in Workers :
        /\ req[w1].pc = "done" /\ Normal(req[w1])
        /\ req[w1].auth.user_id = "u2" /\ req[w1].auth.class_id = "c1"
        /\ req[w1].result.kind = "NoKeyFoundError"
        /\ req[w2].pc = "done" /\ Normal(req[w2])
        /\ req[w2].auth.user_id = "u1" /\ req[w2].auth.class_id = "c1"
        /\ req[w2].result.kind = "NoKeyFoundError"
        /\ enabled["c1"] /\ ClassRow("c1").openai_key = ""
        /\ query_tokens["u1"] >= 1

\* C9: without active tenant, a local-auth identity's Normal-mode resolution
\* returns the system default and is not metered: no balance changes, and a
\* balance of 0 does not raise NoTokensError.
C9_LocalAuthExempt ==
    [][\A w \in Workers :
          (/\ Resolves(w) /\ Normal(req'[w])
           /\ req'[w].auth.class_id = NULL
           /\ req'[w].auth.auth_provider = "local")
          => /\ req'[w].pc = "done"
             /\ req'[w].result = SystemDefault
             /\ query_tokens' = query_tokens]_vars

C9_Witness ==
    \E w \in Workers :
        /\ req[w].pc = "done" /\ Normal(req[w])
        /\ req[w].auth.user_id = "u2" /\ req[w].auth.class_id = NULL
        /\ query_tokens["u2"] = 0
        /\ req[w].result = SystemDefault

\* C10: one credential record is authoritative per tenant: with an LTI-linked
\* consumer the resolved key and model are both the consumer's (also when a
\* classes_user row exists, and when the consumer's key or model is empty or
\* unset); otherwise both are the classes_user row's.
C10_OneRecordAuthoritative ==
    [][\A w \in Workers :
          LET c == req'[w].auth.class_id
              rec == IF classes_lti[c] # NullId /\ consumers[classes_lti[c]] # NoRow
                     THEN consumers[classes_lti[c]]
                     ELSE UserRowOf(c)
          IN
          (/\ Resolves(w) /\ Normal(req'[w])
           /\ c # NULL /\ enabled[c])
          => IF rec.openai_key \in {NULL, ""}
             THEN req'[w].result.kind = "NoKeyFoundError"
             ELSE /\ req'[w].result.kind = "Ok"
                  /\ req'[w].result.key = rec.openai_key
                  /\ req'[w].result.model = ModelName(rec.model_id)]_vars

\* ------------------------------------------------ claims on the tutor
\* the chat row a worker's request is about
ChatOf(w) == tutor_chats[tut[w].chat_id]
\* the texts get_completion returns when the provider answers
ModelTexts == {GetCompletion(Completion(r, f)) : r \in Replies, f \in {"stop", "length"}}
\* the step in which worker w runs the second save_chat of a round
SavesAssistant(w) == tut[w].pc = "save_assistant" /\ tut'[w].pc # "save_assistant"

\* C11: when the provider call of a turn fails, the turn leaves the persisted
\* conversation as it was immediately before the model call: nothing is
\* written for the failed call.
C11_FailedCallWritesNothing ==
    [][\A w \in Workers :
          (SavesAssistant(w) /\ tut[w].response_obj = "error")
              => tutor_chats' = tutor_chats]_vars

\* C12: every persisted turn is a user message supplied to continue or an
\* assistant text returned by the model; the topic, the opening instructions,
\* the context note and the internal monologue are never persisted.
C12_OnlyUserAndModelTurns ==
    \A id \in DOMAIN tutor_chats :
        \A i \in DOMAIN tutor_chats[id].chat_json :
            LET turn == tutor_chats[id].chat_json[i]
            IN /\ \/ turn.role = "user" /\ turn.content \in Messages
                  \/ turn.role = "assistant" /\ turn.content \in ModelTexts
               /\ turn.content \notin
                     {tutor_chats[id].topic, OpeningMsg, MonologueMsg}
                     \cup {ContextMsg(c) : c \in Contexts \ {NULL}}

\* worker w has answered a continue request whose round ran to its end with
\* a text from the model
ContinueDone(w) ==
    /\ tut[w].pc = "responded"
    /\ tut[w].form.op = "new_message"
    /\ tut[w].response_obj = "completion"
\* a continue on a conversation that held, when loaded, the opening reply o of
\* a successful start and nothing else
AfterStart(w, o) ==
    /\ ContinueDone(w)
    /\ o \in ModelTexts /\ o # tut[w].response_txt
    /\ Len(tut[w].chat) = 3
    /\ \E i \in 1..3 : tut[w].chat[i] = Turn("assistant", o)

\* C13 as stated: start(topic) then continue(id, m), both successful, persist
\* exactly [user: m, assistant: opening reply, assistant: reply to m].
C13_Original ==
    \A w \in Workers : \A o \in ModelTexts :
        AfterStart(w, o) =>
            ChatOf(w).chat_json = <<Turn("user", tut[w].form.message),
                                    Turn("assistant", o),
                                    Turn("assistant", tut[w].response_txt)>>

\* C13 (amended): start(topic) then continue(id, m), both successful, persist
\* exactly [assistant: opening reply, user: m, assistant: reply to m], in
\* that order.
C13_StartThenContinue ==
    \A w \in Workers : \A o \in ModelTexts :
        AfterStart(w, o) =>
            ChatOf(w).chat_json = <<Turn("assistant", o),
                                    Turn("user", tut[w].form.message),
                                    Turn("assistant", tut[w].response_txt)>>

\* a start of this run (it submitted a context) and then a continue
C13_Witness ==
    \E w \in Workers : \E o \in ModelTexts :
        /\ AfterStart(w, o)
        /\ ChatOf(w).context = "ctx"
        /\ \E v \in Workers : v # w /\ tut[v].pc = "closed"
        /\ Len(ChatOf(w).chat_json) = 3

\* worker w is in a continue turn whose provider call is under way or over
InOrAfterCall(w) ==
    /\ tut[w].form.op = "new_message"
    /\ tut[w].pc \in {"get_response", "save_assistant"}

\* C14: in a continue turn the user turn is persisted before the provider
\* call is issued: from the moment the call is issued until the assistant
\* turn is saved the persisted conversation ends with the user's message,
\* and once the turn is over that message is the last turn but one.
C14_UserTurnPersistedBeforeCall ==
    \A w \in Workers :
        LET persisted == ChatOf(w).chat_json
            user_turn == Turn("user", tut[w].form.message)
        IN /\ InOrAfterCall(w) =>
                 /\ persisted # <<>>
                 /\ persisted[Len(persisted)] = user_turn
           /\ (tut[w].form.op = "new_message" /\ tut[w].pc = "responded"
                  /\ tut[w].response_obj # NULL) =>
                 /\ Len(persisted) >= 2
                 /\ persisted[Len(persisted) - 1] = user_turn

\* a continue turn whose provider call has been issued and has not returned
C14_Witness ==
    \E w \in Workers :
        /\ tut[w].form.op = "new_message"
        /\ tut[w].pc = "get_response"
        /\ tut[w].form.message \in Messages

\* the caller may use the conversation: it exists, and the caller owns it, is
\* an admin, or is an instructor whose active class is the conversation's
MayAccess(auth, chat_id) ==
    /\ chat_id \in DOMAIN tutor_chats
    /\ \/ auth.user_id = tutor_chats[chat_id].user_id
       \/ auth.is_admin
       \/ /\ auth.role = "instructor"
          /\ auth.class_id # NULL
          /\ auth.class_id = ChatClassId(tutor_chats[chat_id])
\* the step in which worker w, past with_llm, runs get_chat in run_chat_round
LoadsChat(w) ==
    /\ tut[w].pc = "load" /\ tut'[w].pc # "load"
    /\ req[w].pc = "done" /\ req[w].result.kind = "Ok"
\* the step in which worker w, past before_request, serves chat_interface
ViewsChat(w) ==
    /\ tut[w].pc = "idle" /\ tut'[w].form.op = "chat_interface"
    /\ before_request(req'[w].auth) = "ok"
WhatGetChatRaises(auth, chat_id) ==
    IF chat_id \notin DOMAIN tutor_chats THEN "ChatNotFoundError"
    ELSE IF MayAccess(auth, chat_id) THEN "Ok" ELSE "AccessDeniedError"

\* C15: loading or continuing a conversation succeeds iff it exists and the
\* caller is its owner, an admin, or an instructor whose active class is the
\* conversation's class; otherwise get_chat raises ChatNotFoundError (absent)
\* or AccessDeniedError.
C15_AccessIffOwnerAdminInstructor ==
    [][\A w \in Workers :
          /\ LoadsChat(w) =>
                /\ tut'[w].pc = "save_user" <=> MayAccess(req[w].auth, tut[w].chat_id)
                /\ GetChat(req[w].auth, tut[w].chat_id).kind
                      = WhatGetChatRaises(req[w].auth, tut[w].chat_id)
          /\ ViewsChat(w) =>
                /\ tut'[w].response = "tutor_view.html"
                      <=> MayAccess(req'[w].auth, tut'[w].chat_id)
                /\ tut'[w].response \in {"tutor_view.html", "Invalid id."}
                /\ GetChat(req'[w].auth, tut'[w].chat_id).kind
                      = WhatGetChatRaises(req'[w].auth, tut'[w].chat_id)]_vars

\* an instructor of class c1 has been refused a conversation of another class
C15_Witness ==
    \E w \in Workers :
        /\ tut[w].pc = "responded"
        /\ tut[w].form.op = "new_message"
        /\ tut[w].response = "redirect: chat_interface"
        /\ tut[w].response_obj = NULL
        /\ req[w].auth.role = "instructor" /\ ~req[w].auth.is_admin
        /\ tut[w].chat_id \in DOMAIN tutor_chats
        /\ ChatClassId(ChatOf(w)) \notin {NULL, req[w].auth.class_id}

\* worker w serves a continue request that is past with_llm (or in its
\* UPDATE) and whose conversation w's caller may not use
FailedContinue(w) ==
    /\ tut[w].form.op = "new_message"
    /\ tut[w].pc \notin {"idle", "closed"}
    /\ \/ req[w].pc = "decrement"
       \/ req[w].pc = "done" /\ req[w].result.kind = "Ok"
    /\ ~MayAccess(req[w].auth, tut[w].chat_id)

\* C16: a continue request that fails the access check changes no persisted
\* conversation and issues no provider call; it answers with the redirect to
\* the conversation's page, and that page reports "Invalid id." to the caller.
C16_FailedAccessNoEffect ==
    [][\A w \in Workers :
          FailedContinue(w)' =>
             /\ tutor_chats' = tutor_chats
             /\ tut'[w].pc \in {"load", "responded"}
             /\ tut'[w].sent = <<>> /\ tut'[w].response_obj = NULL
             /\ tut'[w].pc = "responded" =>
                   /\ tut'[w].response = "redirect: chat_interface"
                   /\ ChatInterfacePage(req'[w].auth, tut'[w].chat_id) = "Invalid id."]_vars

\* a continue request has been refused a conversation that exists
C16_Witness ==
    \E w \in Workers :
        /\ FailedContinue(w)
        /\ tut[w].pc = "responded"
        /\ tut[w].chat_id \in DOMAIN tutor_chats

\* C17: a continue request of a metered identity (no active class, external
\* sign-in, balance >= 1) that fails the access check leaves the identity's
\* balance unchanged.
C17_FailedAccessKeepsBalance ==
    [][\A w \in Workers :
          (FailedContinue(w)' /\ MeteredReq(req'[w], req'[w].auth.user_id))
              => query_tokens' = query_tokens]_vars

\* the step in which worker w runs create_chat
CreatesChat(w) == tut[w].pc = "create" /\ tut'[w].pc = "load"

\* C18: start creates a conversation owned by the caller, whose class is the
\* caller's active class (none when the caller has none), with no turns; its
\* one round, with no user message, leaves exactly one assistant turn when
\* the model answers.  For every caller, an admin without a membership in
\* the active class included.
C18_StartCreatesOwnedChat ==
    [][\A w \in Workers :
          /\ CreatesChat(w) =>
                LET chat_row == tutor_chats'[tut'[w].chat_id]
                IN /\ tut'[w].chat_id \notin DOMAIN tutor_chats
                   /\ chat_row.user_id = req[w].auth.user_id
                   /\ ChatClassId(chat_row) = req[w].auth.class_id
                   /\ chat_row.chat_json = <<>>
          /\ (SavesAssistant(w) /\ tut[w].form.op = "start_chat"
                 /\ tut[w].response_obj = "completion") =>
                tutor_chats'[tut[w].chat_id].chat_json
                    = <<Turn("assistant", tut[w].response_txt)>>]_vars

\* C19: the list passed to the model is [user: topic, user: opening
\* instructions], then [assistant: context note] iff the conversation has a
\* non-empty context, then the persisted turns in their order (the user turn
\* of this round included), then [assistant: internal monologue]; it is this
\* list, not the persisted one.
C19_ExpandedMessageList ==
    \A w \in Workers :
        tut[w].pc = "save_assistant" =>
            LET chat_row == ChatOf(w)
                note == IF chat_row.context \in {NULL, ""} THEN <<>>
                        ELSE <<[role |-> "assistant",
                                content |-> ContextMsg(chat_row.context)]>>
            IN /\ tut[w].sent =
                     <<[role |-> "user", content |-> chat_row.topic],
                       [role |-> "user", content |-> OpeningMsg]>>
                     \o note \o chat_row.chat_json
                     \o <<[role |-> "assistant", content |-> MonologueMsg]>>
               /\ tut[w].sent # chat_row.chat_json
               /\ tut[w].form.op = "new_message" =>
                     chat_row.chat_json[Len(chat_row.chat_json)]
                         = [role |-> "user", content |-> tut[w].form.message]

\* the model has been called in a continue round of a conversation with a
\* context
C19_Witness ==
    \E w \in Workers :
        /\ tut[w].pc = "save_assistant"
        /\ tut[w].form.op = "new_message"
        /\ ChatOf(w).context = "ctx"
        /\ Len(tut[w].sent) = Len(ChatOf(w).chat_json) + 4

IsPrefix(s, t) == Len(s) <= Len(t) /\ SubSeq(t, 1, Len(s)) = s

\* C20: under every interleaving of concurrent continue requests on one
\* conversation, each persisted state of it has every earlier one as a
\* prefix: no persisted turn is lost, overwritten or reordered.
C20_AppendOnly ==
    [][\A id \in DOMAIN tutor_chats :
          IsPrefix(tutor_chats[id].chat_json, tutor_chats'[id].chat_json)]_vars
\* ------------------------------------------------------ get_auth claims
\* g.auth has been made from the session in this request
Resolved == g_auth.pc = "set"
\* the session's user id has a row in users
KnownUser == g_auth.user_id # NULL /\ g_auth.user_id \in DOMAIN id_store.users
StoredAdmin == KnownUser /\ id_store.users[g_auth.user_id].is_admin
\* user u has an active role row in class c
Member(u, c) ==
    \E i \in DOMAIN id_store.roles :
        /\ id_store.roles[i].user_id = u /\ id_store.roles[i].class_id = c
        /\ id_store.roles[i].active

\* C21: for a non-admin user and any session class id, the resolved active
\* class is null or a class in which the user has an active membership at
\* that time; a session class without such a membership is cleared to null,
\* and the user stays logged in (no error).
C21_TenantIsolation ==
    (Resolved /\ KnownUser /\ ~StoredAdmin) =>
        /\ g_auth.auth.user_id = g_auth.user_id
        /\ g_auth.auth.class_id \in {NULL, g_auth.class_id}
        /\ g_auth.auth.class_id # NULL => Member(g_auth.user_id, g_auth.auth.class_id)
        /\ ~Member(g_auth.user_id, g_auth.class_id) => g_auth.auth.class_id = NULL

\* a session still naming class c1 after the membership there was deactivated
C21_Witness ==
    /\ Resolved /\ KnownUser /\ ~StoredAdmin
    /\ g_auth.user_id = "u1" /\ g_auth.class_id = "c1"
    /\ 1 \in DOMAIN id_store.roles /\ ~id_store.roles[1].active
    /\ g_auth.auth.user_id = "u1" /\ g_auth.auth.class_id = NULL

\* C22: in every resolved AuthData, role and class name are non-null iff
\* the active class id is non-null and the user has an active membership
\* there or is an admin; with a null active class id, role, role id and
\* class name are all null.
C22_RoleAndNameIffClass ==
    Resolved =>
        LET a == g_auth.auth
            inClass == /\ a.class_id # NULL
                       /\ Member(g_auth.user_id, a.class_id) \/ StoredAdmin
        IN /\ a.role # NULL <=> inClass
           /\ a.class_name # NULL <=> inClass
           /\ a.class_id = NULL =>
                 a.role = NULL /\ a.role_id = NullId /\ a.class_name = NULL

\* an admin in a class where they have no role row at all
C22_Witness ==
    /\ Resolved /\ StoredAdmin
    /\ g_auth.user_id = "u3" /\ g_auth.class_id = "c1"
    /\ 3 \notin DOMAIN id_store.roles
    /\ g_auth.auth.class_id = "c1" /\ g_auth.auth.role = "instructor"
    /\ g_auth.auth.class_name = "name of c1" /\ g_auth.auth.role_id = NullId

\* C23: the anonymous AuthData (no user, not admin, not tester, no class,
\* no role, no other classes) is returned whenever the session has no user
\* id and whenever its user id has no row in users, whatever class id the
\* session carries.
C23_AnonymousWhenNoUser ==
    (Resolved /\ ~KnownUser) =>
        g_auth.auth = [user_id |-> NULL, is_admin |-> FALSE, is_tester |-> FALSE,
                       auth_provider |-> NULL, class_id |-> NULL, class_name |-> NULL,
                       role_id |-> NullId, role |-> NULL, other_classes |-> <<>>]

\* a session of a deleted user whose role row in the session's class remains
C23_Witness ==
    /\ Resolved
    /\ g_auth.user_id = "u1" /\ "u1" \notin DOMAIN id_store.users
    /\ g_auth.class_id = "c1" /\ Member("u1", "c1")
    /\ g_auth.auth.user_id = NULL /\ g_auth.auth.class_id = NULL

\* C24: an admin with a session class id keeps that class as active with
\* role 'instructor', whether they have no membership there, an inactive
\* one, or an active one as a student.
C24_AdminKeepsClassAsInstructor ==
    (Resolved /\ StoredAdmin /\ g_auth.class_id # NULL) =>
        /\ g_auth.auth.class_id = g_auth.class_id
        /\ g_auth.auth.role = "instructor"

\* an admin who is an active student of the session's class
C24_Witness ==
    /\ Resolved /\ StoredAdmin
    /\ g_auth.user_id = "u3" /\ g_auth.class_id = "c2"
    /\ 4 \in DOMAIN id_store.roles
    /\ id_store.roles[4].active /\ id_store.roles[4].role = "student"
    /\ g_auth.auth.class_id = "c2" /\ g_auth.auth.role = "instructor"
    /\ g_auth.auth.role_id = 4

\* C25: other_classes holds exactly one record (class id, class name, role)
\* for each active membership of the user whose class is not the session's
\* class and is enabled; the active class, a disabled class and a class of
\* an inactive membership are never in it.
C25_OtherClassesExact ==
    (Resolved /\ KnownUser) =>
        LET oc == g_auth.auth.other_classes
            rows == {i \in DOMAIN id_store.roles :
                        /\ id_store.roles[i].user_id = g_auth.user_id
                        /\ id_store.roles[i].active
                        /\ id_store.roles[i].class_id # g_auth.class_id
                        /\ enabled[id_store.roles[i].class_id]}
        IN /\ Len(oc) = Cardinality(rows)
           /\ {oc[k] : k \in DOMAIN oc} =
                 {[class_id |-> id_store.roles[i].class_id,
                   class_name |-> "name of " \o id_store.roles[i].class_id,
                   role |-> id_store.roles[i].role] : i \in rows}
           /\ \A k \in DOMAIN oc :
                 /\ oc[k].class_id # g_auth.auth.class_id
                 /\ enabled[oc[k].class_id]
                 /\ Member(g_auth.user_id, oc[k].class_id)

\* a member of c1 and c2 with no class in the session while c1 is disabled
C25_Witness ==
    /\ Resolved /\ KnownUser
    /\ g_auth.user_id = "u1" /\ g_auth.class_id = NULL
    /\ Member("u1", "c1") /\ Member("u1", "c2")
    /\ ~enabled["c1"] /\ enabled["c2"]
    /\ Len(g_auth.auth.other_classes) = 1
    /\ g_auth.auth.other_classes[1].class_id = "c2"

\* ------------------------------------------------ get_completion claims
ErrorKinds == {"Timeout", "QuotaExceeded", "RateLimited", "InvalidCredential",
               "ContextTooLong", "BadRequest", "Unknown"}
\* the kind the taxonomy gives a provider error
ErrorKind(o) ==
    CASE o.error = "APITimeoutError" -> "Timeout"
      [] o.error = "RateLimitError" ->
            IF \E i \in DOMAIN o.err_str : o.err_str[i] = "exceeded your current quota"
            THEN "QuotaExceeded" ELSE "RateLimited"
      [] o.error = "AuthenticationError" -> "InvalidCredential"
      [] o.error = "BadRequestError" ->
            IF \E i \in DOMAIN o.err_str : o.err_str[i] = "maximum context length"
            THEN "ContextTooLong" ELSE "BadRequest"
      [] OTHER -> "Unknown"
\* the text by which each kind is told to the user
KindText(kind) ==
    CASE kind = "Timeout" -> "Error (APITimeoutError). The system timed out."
      [] kind = "QuotaExceeded" ->
            "Error (RateLimitError). The API key has exceeded its quota."
      [] kind = "RateLimited" -> "Error (RateLimitError). Too many requests."
      [] kind = "InvalidCredential" ->
            "Error (AuthenticationError). The API key is invalid."
      [] kind = "ContextTooLong" -> "Error (BadRequestError). Your query is too long."
      [] kind = "BadRequest" -> "Error (BadRequestError). Something went wrong."
      [] kind = "Unknown" -> "Error (APIError). Something went wrong."
\* the call ended in a provider error
Failed(c) == c.pc = "returned" /\ c.outcome.error # NULL

\* C26: a provider error is answered with the text of the kind the
\* taxonomy gives it (timeout: Timeout, not Unknown; rate limit: QuotaExceeded
\* with the quota phrase in its message, else RateLimited; authentication:
\* InvalidCredential; bad request: ContextTooLong with the context-length
\* phrase, else BadRequest; anything else: Unknown), and that text is the
\* text of exactly one kind.
C26_ClosedTaxonomy ==
    Failed(completion) =>
        /\ completion.response_txt = KindText(ErrorKind(completion.outcome))
        /\ Cardinality({k \in ErrorKinds : KindText(k) = completion.response_txt}) = 1

\* a timeout, which the APIError clause would catch too, whose message
\* carries the quota phrase
C26_Witness ==
    /\ Failed(completion)
    /\ completion.outcome.error = "APITimeoutError"
    /\ completion.outcome.err_str = <<QuotaPhrase>>
    /\ completion.response_txt = KindText("Timeout")

\* C27: the text shown for a provider failure depends on its kind only: any
\* two failed calls of the same kind, whatever their class and message,
\* return the same text.
C27_TextDependsOnKindOnly ==
    [][(/\ Failed(completion) /\ Failed(completion')
         /\ ErrorKind(completion.outcome) = ErrorKind(completion'.outcome))
        => completion'.response_txt = completion.response_txt]_vars

\* an unrecognised error whose message names a key and a request
C27_Witness ==
    /\ Failed(completion)
    /\ completion.outcome.error = "InternalServerError"
    /\ completion.outcome.err_str =
          <<"Incorrect API key provided: sk-abc", "Request req_1 failed">>
    /\ completion.response.error = completion.outcome.err_str
    /\ completion.response_txt = "Error (APIError). Something went wrong."

\* --------------------------------------------- provider call claims
\* the step in which worker w's request awaits the provider
Calls(w) == tut'[w].calls = tut[w].calls + 1

\* C28: a turn makes at most one provider call; a call that timed out or
\* failed otherwise has its error text taken as the turn's result, and the
\* turn goes on to its end without another call.
C28_OneCallPerTurn ==
    [][\A w \in Workers :
          /\ tut'[w].calls <= 1
          /\ Calls(w) =>
                /\ tut[w].pc = "get_response" /\ tut'[w].pc = "save_assistant"
                /\ tut'[w].response_obj # NULL /\ tut'[w].response_txt # NULL
          /\ tut[w].pc \in {"save_assistant", "responded"} =>
                tut'[w].pc \in {"responded", "closed"} /\ ~Calls(w)]_vars

\* a continue whose only call timed out, answered
C28_Witness ==
    \E w \in Workers :
        /\ tut[w].pc = "responded" /\ tut[w].form.op = "new_message"
        /\ tut[w].calls = 1 /\ tut[w].response_obj = "error"
        /\ tut[w].response_txt = "Error (APITimeoutError). The system timed out."

\* C29: on the metered path the decrement is committed before the request's
\* provider call is made, and nothing gives it back: the balance changes
\* only by the decrement of a resolution, by one, and a metered request
\* calls the provider only after its resolution has returned the client.
C29_DecrementBeforeCallNeverRestored ==
    [][/\ \A u \in Users :
             query_tokens'[u] =
                query_tokens[u]
                - Cardinality({w \in Workers :
                                  Decrements(w) /\ req[w].auth.user_id = u})
       /\ \A w \in Workers, u \in Users :
             (Calls(w) /\ MeteredReq(req[w], u)) =>
                /\ req[w].pc = "done" /\ req[w].result.kind = "Ok"
                /\ req'[w] = req[w]]_vars

\* a metered start whose call failed: the request resolved with the
\* user's last token, and the balance is still 0 when it is answered
C29_Witness ==
    \E w \in Workers :
        /\ tut[w].pc = "responded" /\ tut[w].form.op = "start_chat"
        /\ MeteredReq(req[w], "u1") /\ req[w].result.kind = "Ok"
        /\ tut[w].calls = 1 /\ tut[w].response_obj = "error"
        /\ query_tokens["u1"] = 0

\* ------------------------------------------------------ with_llm claims
\* C30: each of the three denials is told to the user by a message of its
\* own: a disabled class, a missing key and exhausted tokens are flashed
\* as three pairwise different texts, none of them a text for all.
C30_ThreeDistinctDenialMessages ==
    LET shown == [k \in Denials |->
                    CASE k = "ClassDisabledError" ->
                            "Error: The current class is archived or disabled.  Request cannot be submitted."
                      [] k = "NoKeyFoundError" ->
                            "Error: No API key set.  Request cannot be submitted."
                      [] k = "NoTokensError" -> "You have used all of your free tokens."]
    IN /\ \A j, k \in Denials : shown[j] = shown[k] => j = k
       /\ \A w \in Workers :
             req[w].pc = "done" =>
                IF req[w].result.kind \in Denials
                THEN req[w].flashed = shown[req[w].result.kind]
                ELSE req[w].flashed = NULL

\* a request denied for want of a key beside one denied for want of tokens
C30_Witness ==
    \E w1, w2 \in Workers :
        /\ req[w1].pc = "done" /\ req[w1].result.kind = "NoKeyFoundError"
        /\ req[w1].flashed = "Error: No API key set.  Request cannot be submitted."
        /\ req[w2].pc = "done" /\ req[w2].result.kind = "NoTokensError"
        /\ req[w2].flashed = "You have used all of your free tokens."

\* ------------------------------------------------- tutor guard claims
\* the step in which worker w takes up a tutor request
TakesUp(w) == tut[w].pc = "idle" /\ tut'[w].pc # "idle"

\* C31: a start, continue or view asked by a caller who is not a tester,
\* logged in or not, is answered with 404 and nothing else: no resolution
\* of a credential, no decrement, no chat created or changed, no provider
\* call, then or later in the request.
C31_NonTesterGets404 ==
    [][\A w \in Workers :
          /\ (TakesUp(w) /\ ~req'[w].auth.is_tester) =>
                /\ tut'[w].pc = "responded" /\ tut'[w].response = "404"
                /\ req'[w].pc = "idle" /\ req'[w].result = NoResult
                /\ tut'[w].calls = 0 /\ tut'[w].chat = <<>> /\ tut'[w].sent = <<>>
                /\ query_tokens' = query_tokens /\ tutor_chats' = tutor_chats
          /\ (tut[w].pc = "responded" /\ tut[w].response = "404") =>
                /\ tut'[w].pc \in {"responded", "closed"}
                /\ query_tokens' = query_tokens /\ tutor_chats' = tutor_chats]_vars

\* an anonymous caller's message for a chat that exists
C31_Witness ==
    \E w \in Workers :
        /\ tut[w].pc = "responded" /\ tut[w].form.op = "new_message"
        /\ tut[w].form.chat_id = 1 /\ Len(tutor_chats) = 1
        /\ req[w].auth.user_id = NULL /\ ~req[w].auth.is_tester
        /\ tut[w].response = "404"

\* ------------------------------------------------------ consumer claims
\* the registry holds each stored consumer's name with its stored secret,
\* and nothing else
RegistryMatches ==
    /\ DOMAIN registry =
          {consumers_lti[i].lti_consumer :
              i \in {j \in DOMAIN consumers_lti : consumers_lti[j] # NoLti}}
    /\ \A i \in DOMAIN consumers_lti :
          consumers_lti[i] # NoLti =>
             registry[consumers_lti[i].lti_consumer] = consumers_lti[i].lti_secret
\* consumer id has a row, and classes linked to it
Stored(id) == id \in DOMAIN consumers /\ consumers[id] # NoRow
Linked(id) == \E c \in Classes : classes_lti[c] = id

\* C39: after every completed consumer_update and every successful
\* consumer_delete the registry maps exactly each stored consumer's name to
\* its stored secret; a consumer_delete of a consumer with linked classes or
\* of an unknown id deletes nothing and leaves table and registry as they
\* were.
C39_RegistryFollowsStore ==
    [][/\ (consumers' # consumers \/ consumers_lti' # consumers_lti) =>
             (RegistryMatches)'
       /\ (/\ admin'.op = "delete"
           /\ Linked(admin'.consumer_id) \/ ~Stored(admin'.consumer_id)) =>
             /\ consumers' = consumers /\ consumers_lti' = consumers_lti
             /\ registry' = registry
       /\ (/\ admin'.op = "delete"
           /\ ~Linked(admin'.consumer_id) /\ Stored(admin'.consumer_id)) =>
             /\ consumers'[admin'.consumer_id] = NoRow
             /\ consumers_lti'[admin'.consumer_id] = NoLti
             /\ (RegistryMatches)']_vars

\* one of two stored consumers deleted after its secret was changed
C39_Witness ==
    /\ admin.op = "delete" /\ admin.consumer_id = 2
    /\ admin.flash = "Consumer deleted."
    /\ consumers[2] = NoRow /\ consumers_lti[2] = NoLti
    /\ consumers_lti[1] # NoLti /\ consumers_lti[1].lti_secret = "s2"
    /\ DOMAIN registry = {consumers_lti[1].lti_consumer}
    /\ registry[consumers_lti[1].lti_consumer] = "s2"

\* ------------------------------------------------------- session claims
\* C32: set_session_auth_user(u) leaves the user id alone in the session:
\* the class id of the previous user is gone, and what get_auth makes next
\* has user u and no class until set_session_auth_class is called;
\* set_session_auth_class changes the class of a session that has a user,
\* and fails on one that has none.
C32_SetUserDropsClass ==
    [][/\ session'.user_id # session.user_id =>
             /\ session'.class_id = NULL
             /\ g_auth'.pc = "idle"
       /\ (session' # session /\ session'.class_id # NULL) =>
             /\ session.user_id # NULL
             /\ session'.user_id = session.user_id
       /\ g_auth'.pc = "raised" => session.user_id = NULL /\ session' = session
       /\ (g_auth'.pc = "set" /\ session'.class_id = NULL) =>
             /\ g_auth'.auth.user_id = session'.user_id
             /\ g_auth'.auth.class_id = NULL /\ g_auth'.auth.role = NULL]_vars

\* the member u1 logged in over the admin's session that had class c2: the
\* user resolved is u1, without a class
C32_Witness ==
    /\ session = [user_id |-> "u1", class_id |-> NULL]
    /\ g_auth.pc = "set" /\ g_auth.auth.user_id = "u1" /\ g_auth.auth.class_id = NULL
    /\ \E w \in Workers :
          /\ req[w].pc = "done" /\ req[w].auth.user_id = "u3"
          /\ req[w].auth.class_id = "c2"

\* C34: within a request get_auth never returns AuthData made from session
\* data older than the last set_session_auth_user or set_session_auth_class:
\* g.auth, when there is one, was made from the session as it is, and a
\* resolution after a switch of class uses the new class's key.
C34_MemoNeverStale ==
    [][/\ g_auth'.pc = "set" =>
             /\ g_auth'.user_id = session'.user_id
             /\ g_auth'.class_id = session'.class_id
       /\ \A w \in Workers :
             Resolves(w) =>
                /\ req'[w].auth.user_id = session.user_id
                /\ req'[w].auth.class_id \in {NULL, session.class_id}
                /\ (/\ Normal(req'[w]) /\ req'[w].auth.class_id # NULL
                    /\ req'[w].result.kind = "Ok") =>
                      req'[w].result.key = classes_user[session.class_id].openai_key]_vars

\* the admin resolved in class c1, switched to c2 and resolved again
C34_Witness ==
    \E w1, w2 \in Workers :
        /\ session = [user_id |-> "u3", class_id |-> "c2"]
        /\ g_auth.pc = "set" /\ g_auth.class_id = "c2"
        /\ req[w1].pc = "done" /\ req[w1].auth.class_id = "c1"
        /\ req[w1].result.key = "KU1"
        /\ req[w2].pc = "done" /\ req[w2].auth.class_id = "c2"
        /\ req[w2].result.key = "KU2"


\* ---------------------------------------------------------------- login claims
\* the accounts linked to an identity by auth_external
AccountsOf(external, id) ==
    {r.user_id : r \in {x \in external : x.auth_provider = id[1] /\ x.ext_id = id[2]}}

\* C33: an external identity's first login creates one account, holding the
\* query_tokens passed to that login; every later login of the same identity
\* returns that same account, creates no account and changes no balance; and no
\* step ever raises an account's balance.
C33_TokensOnlyAtCreation ==
    [][/\ \A id \in Identities :
             /\ Cardinality(AccountsOf(accounts'.external, id)) <= 1
             /\ AccountsOf(accounts.external, id) \subseteq AccountsOf(accounts'.external, id)
       /\ Len(accounts'.users) >= Len(accounts.users)
       /\ \A i \in DOMAIN accounts.users :
             accounts'.users[i].query_tokens <= accounts.users[i].query_tokens
       /\ accounts'.returned # NullId =>
             LET id == <<accounts'.login.provider, accounts'.login.ext_id>>
             IN  /\ AccountsOf(accounts'.external, id) = {accounts'.returned}
                 /\ IF AccountsOf(accounts.external, id) = {}
                    THEN /\ Len(accounts'.users) = Len(accounts.users) + 1
                         /\ accounts'.returned = Len(accounts'.users)
                         /\ accounts'.users[accounts'.returned].query_tokens
                               = accounts'.login.query_tokens
                         /\ \A i \in DOMAIN accounts.users :
                               accounts'.users[i] = accounts.users[i]
                    ELSE /\ Len(accounts'.users) = Len(accounts.users)
                         /\ accounts'.external = accounts.external
                         /\ \A i \in DOMAIN accounts.users :
                               accounts'.users[i].query_tokens
                                  = accounts.users[i].query_tokens]_vars

\* the first account's owner logs in again, offered MaxTokens, after a second
\* account was made and after the first spent all it had
C33_Witness ==
    /\ Len(accounts.users) = 2
    /\ accounts.returned = 1
    /\ accounts.login.query_tokens = MaxTokens
    /\ accounts.users[1].query_tokens = 0
    /\ accounts.users[2].query_tokens > 0


\* ---------------------------------------------------------------- denial claims
\* _get_llm has raised for the request worker w holds
Denied(rq) == rq.pc = "done" /\ rq.result.kind # "Ok"

\* C35: a request whose _get_llm raised never runs its handler: it holds no
\* chat, has sent nothing and called the provider no time, it is answered with
\* the error page alone, and no step it takes changes tutor_chats.
C35_DenialRunsNothing ==
    [][\A w \in Workers : Denied(req'[w]) =>
          /\ tut'[w].pc \in {"create", "load", "responded"}
          /\ tut'[w].chat = <<>> /\ tut'[w].sent = <<>> /\ tut'[w].calls = 0
          /\ tut'[w].response_obj = NULL /\ tut'[w].response_txt = NULL
          /\ tut'[w].pc = "responded" =>
                tut'[w].response = "error.html: " \o req'[w].flashed
          /\ (tut'[w] # tut[w] \/ req'[w] # req[w]) => tutor_chats' = tutor_chats]_vars

\* an admin in the disabled class c2 sends a message to a chat they may read
C35_Witness ==
    \E w \in Workers :
       /\ Denied(req[w]) /\ req[w].result.kind = "ClassDisabledError"
       /\ req[w].auth.user_id = "u3" /\ req[w].auth.class_id = "c2"
       /\ tut[w].pc = "responded" /\ tut[w].form.op = "new_message"
       /\ tut[w].form.chat_id = 1
       /\ Len(tutor_chats) = 1 /\ Len(tutor_chats[1].chat_json) = 1


\* ---------------------------------------------------------------- turn list claims
\* assistant, user, assistant, ...
Alternates(chat) ==
    \A i \in DOMAIN chat : chat[i].role = IF i % 2 = 1 THEN "assistant" ELSE "user"

\* no request is between its first statement and its response
AllAnswered(t) == \A w \in Workers : t[w].pc \in {"idle", "responded", "closed"}

\* C36: with requests served one after another, every persisted turn list
\* alternates assistant, user, assistant, ... from an assistant turn (so no
\* system turn and no two user turns in a row); a chat is created empty, each
\* save adds one turn to what was persisted, and whenever every request has
\* been answered each list has odd length: the opening turn and two turns for
\* each continue that ran.
C36_TurnsAlternate ==
    [][\A id \in DOMAIN tutor_chats' :
          LET saved == tutor_chats'[id].chat_json
          IN  /\ Alternates(saved)
              /\ AllAnswered(tut') => Len(saved) % 2 = 1
              /\ id \notin DOMAIN tutor_chats => saved = <<>>
              /\ (id \in DOMAIN tutor_chats /\ saved # tutor_chats[id].chat_json) =>
                    /\ Len(saved) = Len(tutor_chats[id].chat_json) + 1
                    /\ SubSeq(saved, 1, Len(saved) - 1) = tutor_chats[id].chat_json
              /\ \A w \in Workers :
                    (tut[w].pc = "save_assistant" /\ tut[w].chat_id = id
                        /\ tut[w].form.op = "new_message") =>
                       /\ Len(saved) >= 3
                       /\ saved[Len(saved) - 1] = Turn("user", tut[w].form.message)]_vars

\* two continues have run on a chat started earlier, the second of them
\* answered with an error text
C36_Witness ==
    /\ \A w \in Workers : tut[w].pc = "closed"
    /\ Len(tutor_chats) = 1
    /\ Len(tutor_chats[1].chat_json) = 5
    /\ tutor_chats[1].chat_json[3].content = "r2"
    /\ tutor_chats[1].chat_json[5].content # "r2"


\* ---------------------------------------------------------------- exhaustion claims
\* C37: while a request of an identity stands answered with NoTokensError,
\* every Normal-mode resolution of that identity without an active class is
\* answered with NoTokensError too, whatever other requests of the identity
\* are between their SELECT and their UPDATE.
C37_ExhaustionPermanent ==
    [][\A v, w \in Workers :
          (/\ req[v].pc = "done" /\ req[v].result.kind = "NoTokensError"
           /\ Resolves(w) /\ Normal(req'[w])
           /\ req'[w].auth.user_id = req[v].auth.user_id
           /\ req'[w].auth.class_id = NULL)
          => /\ req'[w].pc = "done"
             /\ req'[w].result.kind = "NoTokensError"]_vars


\* ---------------------------------------------------------------- class guard claims
\* C38: a request under class_enabled_required reaches the wrapped function
\* iff the caller has no active class or the active class is enabled; a
\* caller whose active class is disabled gets the error page with the guard's
\* message, nothing of the wrapped function runs and no table changes.
C38_GuardIffNoClassOrEnabled ==
    [][\A w \in Workers : Resolves(w) =>
          LET auth == req'[w].auth
          IN  IF auth.class_id = NULL \/ enabled[auth.class_id]
              THEN /\ req'[w].flashed # ClassClosedFlash
                   /\ req'[w].pc = "decrement" \/ req'[w].result # NoResult
              ELSE /\ req'[w].pc = "done"
                   /\ req'[w].result = NoResult
                   /\ req'[w].flashed = ClassClosedFlash
                   /\ UNCHANGED <<query_tokens, enabled, consumers, classes_lti,
                                  classes_user, tutor_chats>>]_vars

\* one member was turned away in the disabled class c1, and the same member
\* without a class was let through and spent a token
C38_Witness ==
    \E w1, w2 \in Workers :
       /\ req[w1].pc = "done" /\ req[w1].flashed = ClassClosedFlash
       /\ req[w1].auth.user_id = "u1" /\ req[w1].auth.class_id = "c1"
       /\ req[w1].result = NoResult /\ ~enabled["c1"]
       /\ req[w2].pc = "done" /\ req[w2].result.kind = "Ok"
       /\ req[w2].auth.user_id = "u1" /\ req[w2].auth.class_id = NULL
       /\ ~req[w2].use_system_key

====
